---------------------------- MODULE Spec2Model ----------------------------
(***************************************************************************)
(* Model of the state-audit analyzer (Recoil/Jotai migration audit).       *)
(*                                                                         *)
(* The analyzer is a pipeline over a parsed project:                       *)
(*   buildSymbolIndex -> buildUsageEvents -> rule evaluators.              *)
(* A project is modelled by what the ts-morph facade reports about it:     *)
(* per file, the variable declarations, call expressions and JSX           *)
(* attributes in document order, each with its position, its ancestor      *)
(* chain and the symbols its identifiers resolve to; plus the table of     *)
(* function-like nodes.  The operators below are the analyzer's functions, *)
(* the actions are the steps of createAnalyzerContext / runAudit.          *)
(***************************************************************************)
EXTENDS Integers, Sequences, FiniteSets, TLC

VARIABLES project, profile, sourceFiles, pc, index, setterBindings,
          jotaiStoreSymbolKeys, usageEvents, dependencyEdges, violations

\* The impact query: its edges, target and depth, the reverse dependency map,
\* the queue and the visited map of collectTransitiveDependents, its result.
VARIABLES impactEdges, impactTargetStateId, maxDepth, reverseDependencyMap, queue,
          visitedDepth, transitiveDependents, ipc

analyzerVars == <<project, profile, sourceFiles, pc, index, setterBindings,
                  jotaiStoreSymbolKeys, usageEvents, dependencyEdges, violations>>

impactVars == <<impactEdges, impactTargetStateId, maxDepth, reverseDependencyMap, queue,
                visitedDepth, transitiveDependents, ipc>>

\* The command line of the audit: process.argv.slice(2), the parsed arguments,
\* the analyzer configuration (or the error thrown while it is created).
VARIABLES argv, parsedArgs, config, cpc

cliVars == <<argv, parsedArgs, config, cpc>>

\* The fixture harness: the audit's output, the fixture's expected.json, the
\* verdict of the comparison.
VARIABLES actualOutput, expectedOutput, fixtureOk, fpc

fixtureVars == <<actualOutput, expectedOutput, fixtureOk, fpc>>

vars == <<analyzerVars, impactVars, cliVars, fixtureVars>>

(***************************************************************************)
(* Bounds                                                                  *)
(***************************************************************************)
\* Number of source files of a project (file paths are 1..NumFiles, ordered
\* as localeCompare orders the paths).
NumFiles == 2

Files == 1..NumFiles

(***************************************************************************)
(* Generic sequence helpers                                                *)
(***************************************************************************)
RECURSIVE Concat(_)
\* Concatenation of a sequence of sequences (Array.prototype.push(...xs)).
Concat(ss) == IF ss = <<>> THEN <<>> ELSE Head(ss) \o Concat(Tail(ss))

\* The elements of s at the indices in I, in index order.
SubSeqByIdx(s, I) ==
  [k \in 1..Cardinality(I) |->
     s[CHOOSE i \in I : Cardinality({j \in I : j < i}) = k - 1]]

\* Array.prototype.sort with a consistent comparator: a stable sort.
StableSort(s, Less(_, _)) ==
  LET n == Len(s)
      rank(i) == Cardinality({j \in 1..n :
                    Less(s[j], s[i]) \/ (~Less(s[i], s[j]) /\ j < i)}) + 1
  IN [k \in 1..n |-> s[CHOOSE i \in 1..n : rank(i) = k]]

\* new Map keyed by Key(x), first occurrence kept, values in insertion order.
UniqueByKey(s, Key(_)) ==
  SubSeqByIdx(s, {i \in 1..Len(s) : \A j \in 1..(i - 1) : Key(s[j]) # Key(s[i])})

Range(s) == {s[i] : i \in 1..Len(s)}

\* Map.set(key, value): the last writer wins.
MapSet(m, k, v) == (k :> v) @@ m

EmptyMap == [x \in {} |-> 0]

(***************************************************************************)
(* Names: String.prototype.localeCompare on the identifiers used below.    *)
(***************************************************************************)
NameOrder == <<"", "counterState", "derivedCount", "migratedState",
               "mirrorState", "notState", "sharedAtom", "sourceSelector">>

NameRank(n) == CHOOSE i \in 1..Len(NameOrder) : NameOrder[i] = n

\* "initWrite" < "read" < "runtimeWrite"
TypeOrder == <<"initWrite", "read", "runtimeWrite">>

TypeRank(t) == CHOOSE i \in 1..Len(TypeOrder) : TypeOrder[i] = t

\* name.startsWith("initialize"), over the names that occur in the projects.
StartsWithInitialize(name) ==
  name \in {"initializeState", "initializeCounter", "initializeApp",
            "initializeStore", "initialized", "initializeAll", "initializeWith"}

\* name.startsWith("on"), over the attribute names that occur in the projects.
StartsWithOn(name) == name \in {"onClick", "onChecked", "onChange", "once"}

(***************************************************************************)
(* The facade's view of the syntax tree                                    *)
(***************************************************************************)
NoSym == <<0, 0, 0, "">>
NoKey == <<0, 0, 0>>
NoState == <<0, "">>

\* An identifier: its text, the key of the symbol it resolves to
\* (declaration file, declaration start, symbol name), the variable
\* declarations of that symbol, and the function-like nodes it resolves to.
Var(text, f, l, c) ==
  [text |-> text, sym |-> <<f, l, c, text>>, declKeys |-> << <<f, l, c>> >>,
   fnKeys |-> <<>>]

FnRef(text, f, l, c) ==
  [text |-> text, sym |-> <<f, l, c, text>>, declKeys |-> <<>>,
   fnKeys |-> << <<f, l, c>> >>]

\* A parameter or other non-variable binding.
Local(text, f, l, c) ==
  [text |-> text, sym |-> <<f, l, c, text>>, declKeys |-> <<>>, fnKeys |-> <<>>]

Unresolved(text) ==
  [text |-> text, sym |-> NoSym, declKeys |-> <<>>, fnKeys |-> <<>>]

\* Argument / initializer expressions.
ArgId(id) == [kind |-> "ident", id |-> id]
ArgFn(key) == [kind |-> "fn", fn |-> key]
ArgObj(props) == [kind |-> "object", props |-> props]
ArgCall(call) == [kind |-> "call", call |-> call]
ArgOther == [kind |-> "other"]

\* Object literal property.
Prop(name, propKind, value) == [name |-> name, propKind |-> propKind, value |-> value]

\* Ancestor chain entries (nearest ancestor first).
Anc(kind, name) == [kind |-> kind, name |-> name, line |-> 0, column |-> 0]
AncFn(kind, name, l, c) == [kind |-> kind, name |-> name, line |-> l, column |-> c]

\* f(args), callee a bare identifier.
CallId(f, l, c, id, args, anc) ==
  [file |-> f, line |-> l, column |-> c, calleeKind |-> "ident", callee |-> id,
   baseKind |-> "none", base |-> Unresolved(""), base2Text |-> "",
   args |-> args, anc |-> anc]

\* base.member(args), base a bare identifier.
CallMember(f, l, c, base, member, args, anc) ==
  [file |-> f, line |-> l, column |-> c, calleeKind |-> "member",
   callee |-> Unresolved(member), baseKind |-> "ident", base |-> base,
   base2Text |-> "", args |-> args, anc |-> anc]

\* base2.baseMember.member(args), e.g. ctx.snapshot.getPromise(x).
CallMember2(f, l, c, base2Text, baseMember, member, args, anc) ==
  [file |-> f, line |-> l, column |-> c, calleeKind |-> "member",
   callee |-> Unresolved(member), baseKind |-> "member",
   base |-> Unresolved(baseMember), base2Text |-> base2Text,
   args |-> args, anc |-> anc]

NoCall == CallId(0, 0, 0, Unresolved(""), <<>>, <<>>)

\* Binding element of a destructuring pattern (or a parameter).
ElemId(prop, id) == [prop |-> prop, nameKind |-> "ident", name |-> id, inner |-> <<>>]
ElemObj(prop, inner) ==
  [prop |-> prop, nameKind |-> "object", name |-> Unresolved(""), inner |-> inner]
ElemOther == [prop |-> "", nameKind |-> "other", name |-> Unresolved(""), inner |-> <<>>]

\* Parameters: identifier, object pattern, or anything else.
ParamId(id) == [nameKind |-> "ident", name |-> id, elements |-> <<>>]
ParamObj(elements) == [nameKind |-> "object", name |-> Unresolved(""), elements |-> elements]

\* const <name> = <init call>
DeclId(f, l, c, id, top, init, anc) ==
  [file |-> f, line |-> l, column |-> c, topLevel |-> top, exported |-> top,
   nameKind |-> "ident", name |-> id, elements |-> <<>>, hasCallInit |-> init # NoCall,
   init |-> init, initId |-> Unresolved(""), anc |-> anc]

\* const [a, b] = <init call>   /   const { p: a } = <init>
DeclPattern(f, l, c, nameKind, elements, init, initId, anc) ==
  [file |-> f, line |-> l, column |-> c, topLevel |-> FALSE, exported |-> FALSE,
   nameKind |-> nameKind,
   name |-> Unresolved(""), elements |-> elements, hasCallInit |-> init # NoCall,
   init |-> init, initId |-> initId, anc |-> anc]

\* Function-like node: its parameters, the expressions it returns (the body
\* of a concise arrow, or the own-scope return statements) and its ancestors.
Func(f, l, c, kind, name, params, returns, anc) ==
  [file |-> f, line |-> l, column |-> c, kind |-> kind, name |-> name,
   params |-> params, returns |-> returns, anc |-> anc]

\* <Tag attr={value} />: the position is that of the value expression and
\* the chain is the value's, starting with the attribute itself.
JsxAttr(f, l, c, name, valueKind, value, tagKind, tag, anc) ==
  [file |-> f, line |-> l, column |-> c, name |-> name, valueKind |-> valueKind,
   value |-> value, tagKind |-> tagKind, tag |-> tag, anc |-> anc]

FunctionLikeKinds ==
  {"ArrowFunction", "FunctionExpression", "FunctionDeclaration", "MethodDeclaration"}

(***************************************************************************)
(* symbols.ts                                                              *)
(***************************************************************************)
NoFactory == [module |-> "", imported |-> ""]

\* resolveCalledFactory: the factory a call names, through the import map.
ResolveCalledFactory(call, importMap) ==
  IF call.calleeKind = "ident" THEN
    IF call.callee.text \in DOMAIN importMap
         /\ importMap[call.callee.text].type = "named"
      THEN [module |-> importMap[call.callee.text].module,
            imported |-> importMap[call.callee.text].imported]
      ELSE NoFactory
  ELSE IF call.calleeKind = "member" THEN
    IF call.baseKind = "ident"
         /\ call.base.text \in DOMAIN importMap
         /\ importMap[call.base.text].type = "namespace"
      THEN [module |-> importMap[call.base.text].module,
            imported |-> call.callee.text]
      ELSE NoFactory
  ELSE NoFactory

NoClass == [store |-> "", kind |-> ""]

IsFunctionLikeExpression(arg) == arg.kind = "fn"

\* classifyStateFactory
ClassifyStateFactory(moduleSpecifier, importedName, call) ==
  IF moduleSpecifier = "recoil" THEN
    IF importedName \in {"atom", "selector", "atomFamily", "selectorFamily"}
      THEN [store |-> "recoil", kind |-> importedName]
      ELSE NoClass
  ELSE IF moduleSpecifier = "jotai" THEN
    IF importedName = "atom" THEN
      IF Len(call.args) > 0 /\ IsFunctionLikeExpression(call.args[1])
        THEN [store |-> "jotai", kind |-> "derivedAtom"]
        ELSE [store |-> "jotai", kind |-> "atom"]
    ELSE NoClass
  ELSE IF moduleSpecifier = "jotai/utils" THEN
    IF importedName = "atomFamily" THEN [store |-> "jotai", kind |-> "atomFamily"]
    ELSE IF importedName = "atomWithDefault"
      THEN [store |-> "jotai", kind |-> "atomWithDefault"]
    ELSE NoClass
  ELSE NoClass

\* createStateId: `${filePath}::${stateName}`
CreateStateId(filePath, stateName) == <<filePath, stateName>>

\* getDeclarationKey: `${filePath}:${declaration.getStart()}`
GetDeclarationKey(decl) == <<decl.file, decl.line, decl.column>>

\* A variant of resolveStateFromExpression that names a state after the
\* symbol's first declaration without looking it up in the index.
ResolveStateFromExpressionUnindexed(args, idx) ==
  IF Len(args) = 0 \/ args[1].kind # "ident" THEN NoState
  ELSE IF Len(args[1].id.declKeys) = 0 THEN NoState
  ELSE CreateStateId(args[1].id.declKeys[1][1], args[1].id.text)

\* resolveStateFromExpression: the id of the state the expression's symbol
\* is declared as (NoState when there is none).
ResolveStateFromExpression(args, idx) ==
  IF Len(args) = 0 \/ args[1].kind # "ident" THEN NoState
  ELSE LET keys == args[1].id.declKeys
           hits == {i \in 1..Len(keys) : keys[i] \in DOMAIN idx.stateByDeclarationKey}
       IN IF hits = {} THEN NoState
          ELSE idx.stateByDeclarationKey[keys[CHOOSE i \in hits : \A j \in hits : i <= j]]

\* The `default` property assignment of an options object literal.
FindProperty(arg, name, kinds) ==
  IF arg.kind # "object" THEN <<>>
  ELSE SelectSeq(arg.props, LAMBDA p : p.propKind \in kinds /\ p.name = name)

\* Variant that looks at selector factory calls only, not at references.
HasSelectorDefaultCallOnly(atomCall, idx) ==
  IF Len(atomCall.args) = 0 \/ atomCall.args[1].kind # "object" THEN FALSE
  ELSE LET found == FindProperty(atomCall.args[1], "default", {"PropertyAssignment"})
       IN IF found = <<>> THEN FALSE
          ELSE /\ found[1].value.kind = "call"
               /\ found[1].value.call.file \in DOMAIN idx.importMapByFilePath
               /\ ResolveCalledFactory(found[1].value.call,
                    idx.importMapByFilePath[found[1].value.call.file]).module = "recoil"
               /\ ResolveCalledFactory(found[1].value.call,
                    idx.importMapByFilePath[found[1].value.call.file]).imported
                    \in {"selector", "selectorFamily"}

\* hasSelectorDefault
HasSelectorDefault(atomCall, idx) ==
  IF Len(atomCall.args) = 0 \/ atomCall.args[1].kind # "object" THEN FALSE
  ELSE LET found == FindProperty(atomCall.args[1], "default", {"PropertyAssignment"})
       IN IF found = <<>> THEN FALSE
          ELSE LET initializer == found[1].value
                   factory == IF initializer.kind = "call"
                                   /\ initializer.call.file \in DOMAIN idx.importMapByFilePath
                                THEN ResolveCalledFactory(initializer.call,
                                       idx.importMapByFilePath[initializer.call.file])
                                ELSE NoFactory
                   referenced == ResolveStateFromExpression(<<initializer>>, idx)
               IN \/ /\ factory.module = "recoil"
                     /\ factory.imported \in {"selector", "selectorFamily"}
                  \/ /\ referenced # NoState
                     /\ idx.stateById[referenced].store = "recoil"
                     /\ idx.stateById[referenced].kind \in {"selector", "selectorFamily"}

\* The comparator of temporaryIndex.states.sort: (filePath, line, name).
StateLess(l, r) ==
  IF l.filePath # r.filePath THEN l.filePath < r.filePath
  ELSE IF l.line # r.line THEN l.line < r.line
  ELSE NameRank(l.name) < NameRank(r.name)

\* The classification of a declaration's initializer call.
ClassifyFactory(factory, call) ==
  IF factory = NoFactory THEN NoClass
  ELSE ClassifyStateFactory(factory.module, factory.imported, call)

DeclarationClass(d, importMap) ==
  ClassifyFactory(ResolveCalledFactory(d.init, importMap), d.init)

\* The state, declaration key and init call recorded for declaration d.
StateDeclaration(d, class) ==
  [state |-> [id |-> CreateStateId(d.file, d.name.text),
              name |-> d.name.text,
              store |-> class.store,
              kind |-> class.kind,
              filePath |-> d.file,
              line |-> d.line,
              column |-> d.column,
              exported |-> d.exported,
              isRecoilPlainAtom |-> class.store = "recoil" /\ class.kind = "atom"],
   declKey |-> GetDeclarationKey(d),
   initCall |-> d.init]

StateDeclarations(decls, importMap) ==
  [i \in 1..Len(decls) |-> StateDeclaration(decls[i], DeclarationClass(decls[i], importMap))]

\* The state declarations of a file: top-level variable declarations whose
\* initializer is a call to a state factory.
FileInternals(proj, f) ==
  StateDeclarations(
    SelectSeq(proj.decls[f], LAMBDA d :
      d.topLevel /\ d.hasCallInit /\ DeclarationClass(d, proj.imports[f]) # NoClass),
    proj.imports[f])

\* new Map(entries): for a repeated key the last entry wins.
LastWith(s, P(_)) == s[CHOOSE i \in 1..Len(s) : P(s[i]) /\ \A j \in (i + 1)..Len(s) : ~P(s[j])]

\* The index before the selector-default pass.
TemporaryIndex(files, proj, internals, ids, keys) ==
  [states |-> [i \in 1..Len(internals) |-> internals[i].state],
   stateById |-> [id \in ids |-> LastWith(internals, LAMBDA x : x.state.id = id).state],
   initCallByStateId |->
     [id \in ids |-> LastWith(internals, LAMBDA x : x.state.id = id).initCall],
   stateByDeclarationKey |->
     [k \in keys |-> LastWith(internals, LAMBDA x : x.declKey = k).state.id],
   importMapByFilePath |-> [f \in Range(files) |-> proj.imports[f]]]

\* The selector-default pass on one recoil atom.
PlainState(x, temporaryIndex) ==
  IF x.state.store # "recoil" \/ x.state.kind # "atom"
    THEN x.state
    ELSE [x.state EXCEPT
            !.isRecoilPlainAtom = ~HasSelectorDefault(x.initCall, temporaryIndex)]

\* The states re-registered by id and sorted.
FinalIndex(temporaryIndex, final) ==
  [temporaryIndex EXCEPT
     !.states = StableSort(final, StateLess),
     !.stateById = [id \in DOMAIN temporaryIndex.stateById |->
                      LastWith(final, LAMBDA x : x.id = id)]]

IndexStates(internals, temporaryIndex) ==
  FinalIndex(temporaryIndex,
             [i \in 1..Len(internals) |-> PlainState(internals[i], temporaryIndex)])

IndexInternals(files, proj, internals) ==
  IndexStates(internals,
              TemporaryIndex(files, proj, internals,
                             {internals[i].state.id : i \in 1..Len(internals)},
                             {internals[i].declKey : i \in 1..Len(internals)}))

\* buildSymbolIndex
BuildSymbolIndex(files, proj) ==
  IndexInternals(files, proj,
                 Concat([i \in 1..Len(files) |-> FileInternals(proj, files[i])]))

(***************************************************************************)
(* events/shared/common.ts                                                 *)
(***************************************************************************)
RECOIL_SNAPSHOT_READ_METHODS == {"get", "getPromise", "getLoadable"}
RECOIL_SETTER_FACTORIES == {"useSetRecoilState", "useResetRecoilState"}
RECOIL_TUPLE_FACTORIES == {"useRecoilState", "useRecoilStateLoadable"}
RECOIL_READ_FACTORIES ==
  {"useRecoilValue", "useRecoilValueLoadable"} \cup RECOIL_TUPLE_FACTORIES
JOTAI_SETTER_FACTORIES == {"useSetAtom"}
JOTAI_TUPLE_FACTORIES == {"useAtom"}
JOTAI_READ_FACTORIES == {"useAtomValue"} \cup JOTAI_TUPLE_FACTORIES

\* Index of the first entry of chain after position `from` that satisfies P
\* (0 when there is none): Node.getFirstAncestor.
FirstAncestor(chain, from, P(_)) ==
  LET hits == {i \in (from + 1)..Len(chain) : P(chain[i])}
  IN IF hits = {} THEN 0 ELSE CHOOSE i \in hits : \A j \in hits : i <= j

IsFunctionLikeNode(node) == node.kind \in FunctionLikeKinds

\* getFunctionLikeName of the function-like node at position i of a chain;
\* "" stands for undefined.
GetFunctionLikeName(chain, i) ==
  IF chain[i].kind \in {"FunctionDeclaration", "MethodDeclaration"}
    THEN chain[i].name
    ELSE LET v == FirstAncestor(chain, i, LAMBDA a : a.kind = "VariableDeclaration")
         IN IF v = 0 THEN "" ELSE chain[v].name

\* isInsideInitializeStateProperty
IsInsideInitializeStateProperty(chain) ==
  \E i \in 1..Len(chain) :
    /\ chain[i].kind \in {"JsxAttribute", "PropertyAssignment"}
    /\ chain[i].name = "initializeState"

\* isInitWriteContext
IsInitWriteContext(chain) ==
  \/ IsInsideInitializeStateProperty(chain)
  \/ \E i \in 1..Len(chain) :
       /\ IsFunctionLikeNode(chain[i])
       /\ GetFunctionLikeName(chain, i) # ""
       /\ StartsWithInitialize(GetFunctionLikeName(chain, i))

\* classifyWriteType
ClassifyWriteType(chain) ==
  IF IsInitWriteContext(chain) THEN "initWrite" ELSE "runtimeWrite"

\* getContainingFunctionName
GetContainingFunctionName(chain) ==
  LET named(i) ==
        IF chain[i].kind = "FunctionDeclaration" THEN chain[i].name # ""
        ELSE IF chain[i].kind = "MethodDeclaration" THEN TRUE
        ELSE IF chain[i].kind \in {"ArrowFunction", "FunctionExpression"}
          THEN LET v == FirstAncestor(chain, i, LAMBDA a : a.kind = "VariableDeclaration")
               IN v # 0 /\ chain[v].name # ""
        ELSE FALSE
      hits == {i \in 1..Len(chain) : named(i)}
  IN IF hits = {} THEN "<anonymous>"
     ELSE LET n == CHOOSE i \in hits : \A j \in hits : i <= j
          IN IF chain[n].kind \in {"FunctionDeclaration", "MethodDeclaration"}
               THEN chain[n].name
               ELSE chain[FirstAncestor(chain, n,
                            LAMBDA a : a.kind = "VariableDeclaration")].name

\* A variant of createRuntimeReadEvent that records the state read as the
\* actor's state.
CreateRuntimeReadEventWithActorState(node, stateId, via) ==
  [type |-> "read", phase |-> "runtime", stateId |-> stateId,
   actorType |-> "function", actorName |-> GetContainingFunctionName(node.anc),
   actorStateId |-> stateId,
   filePath |-> node.file, line |-> node.line, column |-> node.column, via |-> via]

\* createRuntimeReadEvent
CreateRuntimeReadEvent(node, stateId, via) ==
  [type |-> "read", phase |-> "runtime", stateId |-> stateId,
   actorType |-> "function", actorName |-> GetContainingFunctionName(node.anc),
   actorStateId |-> NoState,
   filePath |-> node.file, line |-> node.line, column |-> node.column, via |-> via]

\* createWriteEvent
CreateWriteEvent(node, stateId, runtimeVia, initVia) ==
  LET writeType == ClassifyWriteType(node.anc)
  IN [type |-> writeType, phase |-> "runtime", stateId |-> stateId,
      actorType |-> "function", actorName |-> GetContainingFunctionName(node.anc),
      actorStateId |-> NoState,
      filePath |-> node.file, line |-> node.line, column |-> node.column,
      via |-> IF writeType = "initWrite" THEN initVia ELSE runtimeVia]

\* getMutationVias
GetMutationVias(mutationKind) ==
  IF mutationKind = "set" THEN <<"set-call", "initializeState:set">>
  ELSE <<"reset-call", "initializeState:reset">>

\* resolveMutationKind ("" stands for undefined)
ResolveMutationKind(call) ==
  IF call.calleeKind \in {"ident", "member"} /\ call.callee.text \in {"set", "reset"}
    THEN call.callee.text ELSE ""

\* Variant that accepts the attribute whatever its name.
IsSetterReferenceWriteSiteAnyName(attr) == attr.valueKind = "ident"

\* isSetterReferenceWriteSite: an identifier that is the whole expression of
\* a JSX attribute whose name starts with "on".
IsSetterReferenceWriteSite(attr) ==
  attr.valueKind = "ident" /\ StartsWithOn(attr.name)

RECURSIVE CollectIdentifiersFromBindingName(_)
\* collectIdentifiersFromBindingName: the identifiers of a binding name
\* (identifier or object pattern; array patterns contribute nothing).
CollectIdentifiersFromBindingName(element) ==
  IF element.nameKind = "ident" THEN <<element.name>>
  ELSE IF element.nameKind = "object"
    THEN Concat([i \in 1..Len(element.inner) |->
                   CollectIdentifiersFromBindingName(element.inner[i])])
  ELSE <<>>

\* getSymbolKey (NoSym stands for undefined), prefixed `sym|`.
GetSymbolKey(id) == id.sym
SymKey(sym) == <<"sym", sym[1], sym[2], sym[3], sym[4]>>

\* getFallbackSetterKey: `name|${filePath}|${setterName}`
GetFallbackSetterKey(filePath, setterName) == <<"name", filePath, 0, 0, setterName>>

\* resolveFunctionLikeNodesFromExpression, for a call's callee or a JSX tag.
ResolveFunctionLikeNodesFromExpression(kind, id) ==
  IF kind \in {"ident", "member"} /\ id.sym # NoSym THEN id.fnKeys ELSE <<>>

\* getFunctionLikeNodeKey
GetFunctionLikeNodeKey(fn) == <<fn.file, fn.line, fn.column>>

\* isInFunctionOwnScope: the nearest enclosing function-like node is fn.
IsInFunctionOwnScope(node, fnKey) ==
  LET i == FirstAncestor(node.anc, 0, IsFunctionLikeNode)
  IN /\ i # 0
     /\ <<node.file, node.anc[i].line, node.anc[i].column>> = fnKey

\* A node is a descendant of the function-like node fn.
IsDescendantOf(node, fnKey) ==
  \E i \in 1..Len(node.anc) :
    /\ IsFunctionLikeNode(node.anc[i])
    /\ <<node.file, node.anc[i].line, node.anc[i].column>> = fnKey

\* localeCompare on state ids (`${filePath}::${name}`).
StateIdLess(l, r) ==
  IF l[1] # r[1] THEN l[1] < r[1] ELSE NameRank(l[2]) < NameRank(r[2])

\* A variant of the usage event key that also holds the owner's state id.
UsageEventKeyWithOwner(e) ==
  <<e.type, e.phase, e.stateId, e.actorType, e.actorName, e.filePath, e.line,
    e.column, e.via, e.actorStateId>>

UsageEventKey(e) ==
  <<e.type, e.phase, e.stateId, e.actorType, e.actorName, e.filePath, e.line,
    e.column, e.via>>

\* A variant of the usage event comparator that forgets the line.
UsageEventLessIgnoringLine(l, r) ==
  IF l.filePath # r.filePath THEN l.filePath < r.filePath
  ELSE IF l.column # r.column THEN l.column < r.column
  ELSE IF l.type # r.type THEN TypeRank(l.type) < TypeRank(r.type)
  ELSE StateIdLess(l.stateId, r.stateId)

UsageEventLess(l, r) ==
  IF l.filePath # r.filePath THEN l.filePath < r.filePath
  ELSE IF l.line # r.line THEN l.line < r.line
  ELSE IF l.column # r.column THEN l.column < r.column
  ELSE IF l.type # r.type THEN TypeRank(l.type) < TypeRank(r.type)
  ELSE StateIdLess(l.stateId, r.stateId)

\* A variant of dedupeUsageEvents that returns the map's values unsorted.
DedupeUsageEventsUnsorted(events) == UniqueByKey(events, UsageEventKey)

\* dedupeUsageEvents
DedupeUsageEvents(events) ==
  StableSort(UniqueByKey(events, UsageEventKey), UsageEventLess)

\* A variant of the dependency edge key that leaves out the owner.
DependencyEdgeKeyWithoutFrom(e) ==
  <<e.toStateId, e.filePath, e.line, e.column, e.via>>

DependencyEdgeKey(e) ==
  <<e.fromStateId, e.toStateId, e.filePath, e.line, e.column, e.via>>

DependencyEdgeLess(l, r) ==
  IF l.filePath # r.filePath THEN l.filePath < r.filePath
  ELSE IF l.line # r.line THEN l.line < r.line
  ELSE IF l.column # r.column THEN l.column < r.column
  ELSE IF l.fromStateId # r.fromStateId THEN StateIdLess(l.fromStateId, r.fromStateId)
  ELSE StateIdLess(l.toStateId, r.toStateId)

\* A variant of dedupeDependencyEdges that sorts without the unique map.
DedupeDependencyEdgesSortOnly(edges) == StableSort(edges, DependencyEdgeLess)

\* dedupeDependencyEdges
DedupeDependencyEdges(edges) ==
  StableSort(UniqueByKey(edges, DependencyEdgeKey), DependencyEdgeLess)

(***************************************************************************)
(* events/core/setter-bindings.ts                                          *)
(***************************************************************************)
\* Left fold: for (const x of s) acc = Op(acc, x).
\* (each step is applied to the value the previous step produced)
FoldLeft(Op(_, _), acc, s) ==
  LET RECURSIVE Fold(_, _, _)
      Fold(lo, hi, a) ==
        IF lo > hi THEN a
        ELSE IF lo = hi THEN Op(a, s[lo])
        ELSE CHOOSE right \in {Fold((lo + hi) \div 2 + 1, hi, left) :
                                 left \in {Fold(lo, (lo + hi) \div 2, a)}} : TRUE
  IN Fold(1, Len(s), acc)

\* HookWriteBinding; kind "none" stands for undefined.
NoBinding == [kind |-> "none", stateId |-> NoState, props |-> <<>>]
StateBinding(kind, stateId) == [kind |-> kind, stateId |-> stateId, props |-> <<>>]
ObjectBinding(props) == [kind |-> "object", stateId |-> NoState, props |-> props]

\* resolveStateIdFromIdentifier that consults the symbol key only.
ResolveStateIdFromIdentifierBySymbol(id, filePath, bindings) ==
  IF GetSymbolKey(id) # NoSym /\ SymKey(GetSymbolKey(id)) \in DOMAIN bindings
    THEN bindings[SymKey(GetSymbolKey(id))]
  ELSE NoState

\* resolveStateIdFromIdentifier (NoState stands for undefined)
ResolveStateIdFromIdentifier(id, filePath, bindings) ==
  IF GetSymbolKey(id) # NoSym /\ SymKey(GetSymbolKey(id)) \in DOMAIN bindings
    THEN bindings[SymKey(GetSymbolKey(id))]
  ELSE IF GetFallbackSetterKey(filePath, id.text) \in DOMAIN bindings
    THEN bindings[GetFallbackSetterKey(filePath, id.text)]
  ELSE NoState

\* resolveDirectHookWriteBinding
ResolveDirectHookWriteBinding(call, idx) ==
  IF call.file \notin DOMAIN idx.importMapByFilePath THEN NoBinding
  ELSE LET factory == ResolveCalledFactory(call, idx.importMapByFilePath[call.file])
           targetState == ResolveStateFromExpression(call.args, idx)
           isSetter == \/ /\ factory.module = "recoil"
                          /\ factory.imported \in RECOIL_SETTER_FACTORIES
                       \/ /\ factory.module = "jotai"
                          /\ factory.imported \in JOTAI_SETTER_FACTORIES
           isTuple == \/ /\ factory.module = "recoil"
                         /\ factory.imported \in RECOIL_TUPLE_FACTORIES
                      \/ /\ factory.module = "jotai"
                         /\ factory.imported \in JOTAI_TUPLE_FACTORIES
       IN IF factory = NoFactory THEN NoBinding
          ELSE IF isSetter
            THEN IF targetState = NoState THEN NoBinding
                 ELSE StateBinding("setter", targetState)
          ELSE IF isTuple
            THEN IF targetState = NoState THEN NoBinding
                 ELSE StateBinding("tuple", targetState)
          ELSE NoBinding

\* bindSetterIdentifier
BindSetterIdentifier(id, filePath, stateId, m) ==
  LET bySymbol == IF GetSymbolKey(id) # NoSym
                    THEN MapSet(m, SymKey(GetSymbolKey(id)), stateId) ELSE m
  IN MapSet(bySymbol, GetFallbackSetterKey(filePath, id.text), stateId)

\* bindSetterIdentifierByName: the fallback key always, the symbol key when
\* the binding element's name is an identifier.
BindSetterIdentifierByName(localId, filePath, stateId, m, fallbackElement) ==
  LET byName == MapSet(m, GetFallbackSetterKey(filePath, localId.text), stateId)
  IN IF fallbackElement.nameKind = "ident" /\ GetSymbolKey(localId) # NoSym
       THEN MapSet(byName, SymKey(GetSymbolKey(localId)), stateId)
       ELSE byName

\* The binding element loop shared by object patterns: every element whose
\* property name is propName binds its identifiers to stateId.
BindElement(element, filePath, stateId, m) ==
  FoldLeft(LAMBDA acc, localId :
             BindSetterIdentifierByName(localId, filePath, stateId, acc, element),
           m, CollectIdentifiersFromBindingName(element))

\* bindSetterIdentifiersFromDeclaration
BindSetterIdentifiersFromDeclaration(decl, binding, m) ==
  IF binding.kind = "setter" /\ decl.nameKind = "ident"
    THEN BindSetterIdentifier(decl.name, decl.file, binding.stateId, m)
  ELSE IF binding.kind = "tuple" /\ decl.nameKind = "array"
    THEN IF Len(decl.elements) >= 2 /\ decl.elements[2].nameKind = "ident"
           THEN BindSetterIdentifier(decl.elements[2].name, decl.file, binding.stateId, m)
           ELSE m
  ELSE IF binding.kind = "object" /\ decl.nameKind = "object"
    THEN FoldLeft(LAMBDA acc, element :
                    IF element.prop \in DOMAIN binding.props
                      THEN BindElement(element, decl.file, binding.props[element.prop], acc)
                      ELSE acc,
                  m, decl.elements)
  ELSE m

\* sourceFile.getDescendantsOfKind(VariableDeclaration) with a call initializer,
\* over all files in load order.
CallInitializedDeclarations(files, proj) ==
  Concat([i \in 1..Len(files) |->
            SelectSeq(proj.decls[files[i]], LAMBDA d : d.hasCallInit)])

\* buildDirectSetterBindings
BuildDirectSetterBindings(files, proj, idx) ==
  FoldLeft(LAMBDA m, decl :
             LET binding == ResolveDirectHookWriteBinding(decl.init, idx)
             IN IF binding.kind = "none" THEN m
                ELSE BindSetterIdentifiersFromDeclaration(decl, binding, m),
           EmptyMap, CallInitializedDeclarations(files, proj))

\* registerLocalHookBindingFromDeclaration, on the pair of local maps.
RegisterLocalHookBindingFromDeclaration(decl, binding, locals) ==
  IF decl.nameKind = "ident"
    THEN [values |-> MapSet(locals.values, decl.name.text, binding),
          setters |-> IF binding.kind = "setter"
                        THEN MapSet(locals.setters, decl.name.text, binding.stateId)
                        ELSE locals.setters]
  ELSE IF decl.nameKind = "array" /\ binding.kind = "tuple"
    THEN IF Len(decl.elements) >= 2 /\ decl.elements[2].nameKind = "ident"
           THEN [locals EXCEPT !.setters =
                   MapSet(locals.setters, decl.elements[2].name.text, binding.stateId)]
           ELSE locals
  ELSE IF decl.nameKind = "object" /\ binding.kind = "object"
    THEN [locals EXCEPT !.setters =
            FoldLeft(LAMBDA acc, element :
                       IF element.prop \in DOMAIN binding.props
                         THEN FoldLeft(LAMBDA a, localId :
                                         MapSet(a, localId.text, binding.props[element.prop]),
                                       acc, CollectIdentifiersFromBindingName(element))
                         ELSE acc,
                     locals.setters, decl.elements)]
  ELSE locals

\* The object-literal branch of resolveHookWriteBindingFromReturnExpression.
ObjectSetterStateByProp(props, localSetterByName) ==
  FoldLeft(LAMBDA acc, property :
             IF property.propKind = "ShorthandPropertyAssignment"
               THEN IF property.name \in DOMAIN localSetterByName
                      THEN MapSet(acc, property.name, localSetterByName[property.name])
                      ELSE acc
             ELSE IF property.propKind = "PropertyAssignment"
                       /\ property.value.kind = "ident"
                       /\ property.value.id.text \in DOMAIN localSetterByName
               THEN MapSet(acc, property.name, localSetterByName[property.value.id.text])
             ELSE acc,
           EmptyMap, props)

RECURSIVE ResolveHookWriteBindingFromCallExpression(_, _, _, _, _)
RECURSIVE ResolveFromFunctionNodes(_, _, _, _, _)
RECURSIVE CacheAnalyzed(_, _, _, _, _)
RECURSIVE AnalyzeHookWrapperFunction(_, _, _, _, _)
RECURSIVE AnalyzeLocalDeclarations(_, _, _, _, _, _)
RECURSIVE RegisterResolved(_, _, _, _, _)
RECURSIVE ResolveFromLocals(_, _, _, _)
RECURSIVE ResolveHookWriteBindingFromReturnExpression(_, _, _, _, _, _)
RECURSIVE ResolveFromReturnExpressions(_, _, _, _, _, _)
RECURSIVE NextReturnExpression(_, _, _, _, _)

\* resolveHookWriteBindingFromCallExpression; the result carries the cache and
\* the set of keys being resolved as the call leaves them (both are objects
\* the code mutates in place).
ResolveHookWriteBindingFromCallExpression(call, proj, idx, cache, resolvingKeys) ==
  LET directBinding == ResolveDirectHookWriteBinding(call, idx)
  IN IF directBinding.kind # "none"
       THEN [binding |-> directBinding, cache |-> cache, resolvingKeys |-> resolvingKeys]
       ELSE ResolveFromFunctionNodes(
              ResolveFunctionLikeNodesFromExpression(call.calleeKind, call.callee),
              proj, idx, cache, resolvingKeys)

\* The loop over functionNodes of resolveHookWriteBindingFromCallExpression,
\* up to the call of analyzeHookWrapperFunction after resolvingKeys.add(key).
ResolveFromFunctionNodes(keys, proj, idx, cache, resolvingKeys) ==
  IF keys = <<>>
    THEN [binding |-> NoBinding, cache |-> cache, resolvingKeys |-> resolvingKeys]
  ELSE IF Head(keys) \in DOMAIN cache
    THEN IF cache[Head(keys)].kind # "none"
           THEN [binding |-> cache[Head(keys)], cache |-> cache,
                 resolvingKeys |-> resolvingKeys]
           ELSE ResolveFromFunctionNodes(Tail(keys), proj, idx, cache, resolvingKeys)
  ELSE IF Head(keys) \in resolvingKeys
    THEN ResolveFromFunctionNodes(Tail(keys), proj, idx, cache, resolvingKeys)
  ELSE CacheAnalyzed(keys, proj, idx, Head(keys),
         AnalyzeHookWrapperFunction(Head(keys), proj, idx, cache,
                                    resolvingKeys \cup {Head(keys)}))

\* Variant of that iteration without resolvingKeys.delete(key).
CacheAnalyzedKeepingKey(keys, proj, idx, key, analyzed) ==
  IF analyzed.binding.kind # "none"
    THEN [binding |-> analyzed.binding,
          cache |-> MapSet(analyzed.cache, key, analyzed.binding),
          resolvingKeys |-> analyzed.resolvingKeys]
    ELSE ResolveFromFunctionNodes(Tail(keys), proj, idx,
           MapSet(analyzed.cache, key, analyzed.binding), analyzed.resolvingKeys)

\* The rest of one iteration of that loop: cache.set(key, analyzed ?? null),
\* resolvingKeys.delete(key), and the return or the next function node.
CacheAnalyzed(keys, proj, idx, key, analyzed) ==
  IF analyzed.binding.kind # "none"
    THEN [binding |-> analyzed.binding,
          cache |-> MapSet(analyzed.cache, key, analyzed.binding),
          resolvingKeys |-> analyzed.resolvingKeys \ {key}]
    ELSE ResolveFromFunctionNodes(Tail(keys), proj, idx,
           MapSet(analyzed.cache, key, analyzed.binding),
           analyzed.resolvingKeys \ {key})

\* analyzeHookWrapperFunction
AnalyzeHookWrapperFunction(fnKey, proj, idx, cache, resolvingKeys) ==
  ResolveFromLocals(fnKey, proj, idx,
    AnalyzeLocalDeclarations(
      SelectSeq(proj.decls[fnKey[1]], LAMBDA d :
        IsInFunctionOwnScope(d, fnKey) /\ d.hasCallInit),
      proj, idx, cache, resolvingKeys, [values |-> EmptyMap, setters |-> EmptyMap]))

\* The declaration loop of analyzeHookWrapperFunction.
AnalyzeLocalDeclarations(decls, proj, idx, cache, resolvingKeys, locals) ==
  IF decls = <<>>
    THEN [locals |-> locals, cache |-> cache, resolvingKeys |-> resolvingKeys]
  ELSE RegisterResolved(decls, proj, idx, locals,
         ResolveHookWriteBindingFromCallExpression(
           Head(decls).init, proj, idx, cache, resolvingKeys))

\* One iteration of the declaration loop once the initializer is resolved.
RegisterResolved(decls, proj, idx, locals, r) ==
  AnalyzeLocalDeclarations(Tail(decls), proj, idx, r.cache, r.resolvingKeys,
    IF r.binding.kind = "none" THEN locals
    ELSE RegisterLocalHookBindingFromDeclaration(Head(decls), r.binding, locals))

\* The return loop of analyzeHookWrapperFunction, entered with what the
\* declaration loop left.
ResolveFromLocals(fnKey, proj, idx, analyzed) ==
  ResolveFromReturnExpressions(proj.funcs[fnKey].returns, proj, idx,
    analyzed.cache, analyzed.resolvingKeys, analyzed.locals)

\* Variant in which a returned identifier is looked up among the local setter
\* names.
ResolveHookWriteBindingFromReturnExpressionBySetterName(e, proj, idx, cache, resolvingKeys, locals) ==
  IF e.kind = "call"
    THEN ResolveHookWriteBindingFromCallExpression(e.call, proj, idx, cache,
                                                   resolvingKeys)
  ELSE [binding |->
          IF e.kind = "ident"
            THEN IF e.id.text \in DOMAIN locals.setters
                   THEN StateBinding("setter", locals.setters[e.id.text])
                   ELSE NoBinding
          ELSE IF e.kind = "object"
            THEN LET props == ObjectSetterStateByProp(e.props, locals.setters)
                 IN IF DOMAIN props = {} THEN NoBinding ELSE ObjectBinding(props)
          ELSE NoBinding,
        cache |-> cache, resolvingKeys |-> resolvingKeys]

\* resolveHookWriteBindingFromReturnExpression
ResolveHookWriteBindingFromReturnExpression(e, proj, idx, cache, resolvingKeys, locals) ==
  IF e.kind = "call"
    THEN ResolveHookWriteBindingFromCallExpression(e.call, proj, idx, cache,
                                                   resolvingKeys)
  ELSE [binding |->
          IF e.kind = "ident"
            THEN IF e.id.text \in DOMAIN locals.values
                   THEN locals.values[e.id.text] ELSE NoBinding
          ELSE IF e.kind = "object"
            THEN LET props == ObjectSetterStateByProp(e.props, locals.setters)
                 IN IF DOMAIN props = {} THEN NoBinding ELSE ObjectBinding(props)
          ELSE NoBinding,
        cache |-> cache, resolvingKeys |-> resolvingKeys]

\* The return loop of analyzeHookWrapperFunction.
ResolveFromReturnExpressions(returns, proj, idx, cache, resolvingKeys, locals) ==
  IF returns = <<>>
    THEN [binding |-> NoBinding, cache |-> cache, resolvingKeys |-> resolvingKeys]
  ELSE NextReturnExpression(returns, proj, idx, locals,
         ResolveHookWriteBindingFromReturnExpression(
           Head(returns), proj, idx, cache, resolvingKeys, locals))

\* One iteration of the return loop once the expression is resolved.
NextReturnExpression(returns, proj, idx, locals, r) ==
  IF r.binding.kind # "none" THEN r
  ELSE ResolveFromReturnExpressions(Tail(returns), proj, idx, r.cache,
         r.resolvingKeys, locals)

\* One iteration of the declaration loop of buildSetterBindings once the
\* initializer is resolved.
BindResolved(decl, bindings, r) ==
  [cache |-> r.cache,
   resolvingKeys |-> r.resolvingKeys,
   bindings |-> IF r.binding.kind = "none" THEN bindings
                ELSE BindSetterIdentifiersFromDeclaration(decl, r.binding, bindings)]

\* The declaration loop of buildSetterBindings with the objects it shares
\* between the declarations: the bindings, hookBindingCache and
\* resolvingHookKeys.
ResolveDeclarations(decls, proj, idx) ==
  FoldLeft(LAMBDA acc, decl :
             BindResolved(decl, acc.bindings,
               ResolveHookWriteBindingFromCallExpression(
                 decl.init, proj, idx, acc.cache, acc.resolvingKeys)),
           [cache |-> EmptyMap, resolvingKeys |-> {}, bindings |-> EmptyMap],
           decls)

\* buildSetterBindings
BuildSetterBindings(files, proj, idx) ==
  ResolveDeclarations(CallInitializedDeclarations(files, proj), proj, idx).bindings

(***************************************************************************)
(* events/extensions/forwarding/index.ts                                   *)
(***************************************************************************)
\* One call expression of the function-argument loop: every identifier
\* argument that resolves in the base bindings binds the identifier
\* parameter at the same position of every target function.
ForwardCallArguments(call, proj, baseSetterBindings, propagated) ==
  LET targetFunctions ==
        ResolveFunctionLikeNodesFromExpression(call.calleeKind, call.callee)
      bindTarget(acc, i, stateId) ==
        FoldLeft(LAMBDA a, fnKey :
                   LET fn == proj.funcs[fnKey]
                   IN IF i <= Len(fn.params) /\ fn.params[i].nameKind = "ident"
                        THEN BindSetterIdentifier(fn.params[i].name, fn.file, stateId, a)
                        ELSE a,
                 acc, targetFunctions)
  IN IF targetFunctions = <<>> THEN propagated
     ELSE FoldLeft(LAMBDA acc, i :
                     IF call.args[i].kind # "ident" THEN acc
                     ELSE LET stateId == ResolveStateIdFromIdentifier(
                                           call.args[i].id, call.file, baseSetterBindings)
                          IN IF stateId = NoState THEN acc
                             ELSE bindTarget(acc, i, stateId),
                   propagated, [i \in 1..Len(call.args) |-> i])

\* Variant that binds the identifiers of every element, whatever its property
\* name.
ForwardToElementsAnyName(elements, propName, filePath, stateId, m) ==
  FoldLeft(LAMBDA acc, element : BindElement(element, filePath, stateId, acc),
           m, elements)

\* The elements of an object pattern named propName bind their identifiers.
ForwardToElements(elements, propName, filePath, stateId, m) ==
  FoldLeft(LAMBDA acc, element :
             IF element.prop # propName THEN acc
             ELSE BindElement(element, filePath, stateId, acc),
           m, elements)

\* One JSX attribute of the JSX-prop loop.
ForwardJsxAttribute(attr, proj, baseSetterBindings, propagated) ==
  IF attr.valueKind # "ident" THEN propagated
  ELSE LET stateId == ResolveStateIdFromIdentifier(attr.value, attr.file, baseSetterBindings)
           targetFunctions ==
             IF attr.tagKind = "ident"
               THEN ResolveFunctionLikeNodesFromExpression("ident", attr.tag)
               ELSE <<>>
           forTarget(acc, fnKey) ==
             LET fn == proj.funcs[fnKey]
             IN IF Len(fn.params) = 0 THEN acc
                ELSE IF fn.params[1].nameKind = "object"
                  THEN ForwardToElements(fn.params[1].elements, attr.name, fn.file,
                                         stateId, acc)
                ELSE IF fn.params[1].nameKind # "ident" THEN acc
                ELSE FoldLeft(LAMBDA a, decl :
                                IF /\ IsInFunctionOwnScope(decl, fnKey)
                                   /\ decl.nameKind = "object"
                                   /\ decl.initId.text # ""
                                   /\ decl.initId.text = fn.params[1].name.text
                                  THEN ForwardToElements(decl.elements, attr.name,
                                                         fn.file, stateId, a)
                                  ELSE a,
                              acc, proj.decls[fn.file])
       IN IF stateId = NoState \/ targetFunctions = <<>> THEN propagated
          ELSE FoldLeft(forTarget, propagated, targetFunctions)

\* A transitive variant of the propagation: the forwarding sources are looked
\* up in the map being built instead of the base map.
PropagateSetterBindingsTransitive(files, proj, baseSetterBindings) ==
  FoldLeft(LAMBDA perFile, f :
             FoldLeft(LAMBDA acc, attr : ForwardJsxAttribute(attr, proj, acc, acc),
                      FoldLeft(LAMBDA acc, call : ForwardCallArguments(call, proj, acc, acc),
                               perFile, proj.calls[f]),
                      proj.jsx[f]),
           baseSetterBindings, files)

\* A variant of the propagation that starts from an empty map (new Map())
\* instead of the copy of the base bindings.
PropagateSetterBindingsOneHopFromEmpty(files, proj, baseSetterBindings) ==
  FoldLeft(LAMBDA perFile, f :
             FoldLeft(LAMBDA acc, attr :
                        ForwardJsxAttribute(attr, proj, baseSetterBindings, acc),
                      FoldLeft(LAMBDA acc, call :
                                 ForwardCallArguments(call, proj, baseSetterBindings, acc),
                               perFile, proj.calls[f]),
                      proj.jsx[f]),
           EmptyMap, files)

\* propagateSetterBindingsOneHop
PropagateSetterBindingsOneHop(files, proj, baseSetterBindings) ==
  FoldLeft(LAMBDA perFile, f :
             FoldLeft(LAMBDA acc, attr :
                        ForwardJsxAttribute(attr, proj, baseSetterBindings, acc),
                      FoldLeft(LAMBDA acc, call :
                                 ForwardCallArguments(call, proj, baseSetterBindings, acc),
                               perFile, proj.calls[f]),
                      proj.jsx[f]),
           baseSetterBindings, files)

(***************************************************************************)
(* events/extensions/store-api/index.ts                                    *)
(***************************************************************************)
\* buildJotaiStoreSymbolKeys
BuildJotaiStoreSymbolKeys(files, proj, idx) ==
  LET stores == {d \in Range(CallInitializedDeclarations(files, proj)) :
                   /\ d.file \in DOMAIN idx.importMapByFilePath
                   /\ ResolveCalledFactory(d.init, idx.importMapByFilePath[d.file])
                        = [module |-> "jotai", imported |-> "createStore"]
                   /\ d.nameKind = "ident"}
  IN {SymKey(GetSymbolKey(d.name)) : d \in {x \in stores : GetSymbolKey(x.name) # NoSym}}
       \cup {GetFallbackSetterKey(d.file, d.name.text) : d \in stores}

\* isKnownJotaiStoreIdentifier
IsKnownJotaiStoreIdentifier(id, filePath, jotaiKeys) ==
  \/ GetSymbolKey(id) # NoSym /\ SymKey(GetSymbolKey(id)) \in jotaiKeys
  \/ GetFallbackSetterKey(filePath, id.text) \in jotaiKeys

\* isJotaiStoreGetCall
IsJotaiStoreGetCall(call, jotaiKeys) ==
  /\ call.calleeKind = "member" /\ call.callee.text = "get"
  /\ call.baseKind = "ident"
  /\ IsKnownJotaiStoreIdentifier(call.base, call.file, jotaiKeys)

\* isJotaiStoreSetCall
IsJotaiStoreSetCall(call, jotaiKeys) ==
  /\ call.calleeKind = "member" /\ call.callee.text = "set"
  /\ call.baseKind = "ident"
  /\ IsKnownJotaiStoreIdentifier(call.base, call.file, jotaiKeys)

\* All call expressions, file by file in load order.
AllCalls(files, proj) == Concat([i \in 1..Len(files) |-> proj.calls[files[i]]])

\* classifyJotaiStoreSetWrite: zero or one event.
ClassifyJotaiStoreSetWrite(call, jotaiKeys, idx) ==
  IF /\ IsJotaiStoreSetCall(call, jotaiKeys)
     /\ ResolveStateFromExpression(call.args, idx) # NoState
    THEN <<CreateWriteEvent(call, ResolveStateFromExpression(call.args, idx),
                            "jotai:store.set", "initializeState:jotai:store.set")>>
    ELSE <<>>

\* storeApiExtractor.run
StoreApiExtractor(files, proj, idx, jotaiKeys) ==
  LET calls == AllCalls(files, proj)
  IN Concat([i \in 1..Len(calls) |-> ClassifyJotaiStoreSetWrite(calls[i], jotaiKeys, idx)])

(***************************************************************************)
(* events/core/direct-hooks.ts                                             *)
(***************************************************************************)
\* classifyRuntimeRead
ClassifyRuntimeRead(call, importMap, idx) ==
  LET factory == ResolveCalledFactory(call, importMap)
      isReadHook ==
        \/ factory.module = "recoil" /\ factory.imported \in RECOIL_READ_FACTORIES
        \/ factory.module = "jotai" /\ factory.imported \in JOTAI_READ_FACTORIES
      targetState == ResolveStateFromExpression(call.args, idx)
  IN IF factory # NoFactory /\ isReadHook /\ targetState # NoState
       THEN <<CreateRuntimeReadEvent(call, targetState,
                                     factory.module \o ":" \o factory.imported)>>
       ELSE <<>>

\* classifySetterWriteCall
ClassifySetterWriteCall(call, bindings) ==
  IF call.calleeKind # "ident" THEN <<>>
  ELSE LET targetStateId == ResolveStateIdFromIdentifier(call.callee, call.file, bindings)
       IN IF targetStateId = NoState THEN <<>>
          ELSE <<CreateWriteEvent(call, targetStateId, "hook-setter-call",
                                  "initializeState:hook-setter-call")>>

\* extractSetterReferenceWriteEvents
ExtractSetterReferenceWriteEvents(attrs, bindings) ==
  Concat([i \in 1..Len(attrs) |->
    IF ~IsSetterReferenceWriteSite(attrs[i]) THEN <<>>
    ELSE LET targetStateId ==
               ResolveStateIdFromIdentifier(attrs[i].value, attrs[i].file, bindings)
         IN IF targetStateId = NoState THEN <<>>
            ELSE <<CreateWriteEvent(attrs[i], targetStateId, "hook-setter-reference",
                                    "initializeState:hook-setter-reference")>>])

\* classifyDirectMutationWrite
\* Variant without the isJotaiStoreSetCall guard.
ClassifyDirectMutationWriteUnguarded(call, jotaiKeys, idx) ==
  LET mutationKind == ResolveMutationKind(call)
      targetState == ResolveStateFromExpression(call.args, idx)
  IN IF mutationKind = "" \/ targetState = NoState
       THEN <<>>
       ELSE <<CreateWriteEvent(call, targetState, GetMutationVias(mutationKind)[1],
                               GetMutationVias(mutationKind)[2])>>

ClassifyDirectMutationWrite(call, jotaiKeys, idx) ==
  LET mutationKind == ResolveMutationKind(call)
      targetState == ResolveStateFromExpression(call.args, idx)
  IN IF IsJotaiStoreSetCall(call, jotaiKeys) \/ mutationKind = "" \/ targetState = NoState
       THEN <<>>
       ELSE <<CreateWriteEvent(call, targetState, GetMutationVias(mutationKind)[1],
                               GetMutationVias(mutationKind)[2])>>

\* coreDirectHooksExtractor.run
CoreDirectHooksExtractor(files, proj, idx, bindings, jotaiKeys) ==
  Concat([f \in 1..Len(files) |->
    LET calls == proj.calls[files[f]]
        importMap == idx.importMapByFilePath[files[f]]
    IN Concat([i \in 1..Len(calls) |->
                 ClassifyRuntimeRead(calls[i], importMap, idx)
                   \o ClassifySetterWriteCall(calls[i], bindings)
                   \o ClassifyDirectMutationWrite(calls[i], jotaiKeys, idx)])
         \o ExtractSetterReferenceWriteEvents(proj.jsx[files[f]], bindings)])

(***************************************************************************)
(* events/core/dependencies.ts                                             *)
(***************************************************************************)
\* Document order on function-like node keys.
FnKeyLess(l, r) ==
  IF l[1] # r[1] THEN l[1] < r[1]
  ELSE IF l[2] # r[2] THEN l[2] < r[2]
  ELSE l[3] < r[3]

\* The members of a set of function keys in document order.
InDocumentOrder(S) ==
  [i \in 1..Cardinality(S) |->
     CHOOSE k \in S : Cardinality({j \in S : FnKeyLess(j, k)}) = i - 1]

\* node.getDescendantsOfKind(CallExpression) of a function-like node.
CallsWithin(proj, fnKey) ==
  SelectSeq(proj.calls[fnKey[1]], LAMBDA c : IsDescendantOf(c, fnKey))

\* getNestedFunctionNodes: the root, then the function-like nodes inside it.
GetNestedFunctionNodes(proj, rootKey) ==
  <<rootKey>> \o InDocumentOrder({k \in DOMAIN proj.funcs :
                                    IsDescendantOf(proj.funcs[k], rootKey)})

NoScope == [scopeNode |-> NoKey, getNames |-> {}, contextNames |-> {}]

\* extractRecoilGetBinding (NoScope stands for undefined)
ExtractRecoilGetBinding(proj, fnKey) ==
  LET fn == proj.funcs[fnKey]
      p == fn.params[1]
      contextNames == IF p.nameKind = "ident" THEN {p.name.text} ELSE {}
      getNames ==
        IF p.nameKind = "object"
          THEN UNION {{id.text : id \in Range(CollectIdentifiersFromBindingName(e))}
                      : e \in {x \in Range(p.elements) : x.prop = "get"}}
          ELSE {}
  IN IF Len(fn.params) = 0 THEN NoScope
     ELSE IF getNames = {} /\ contextNames = {} THEN NoScope
     ELSE [scopeNode |-> fnKey, getNames |-> getNames, contextNames |-> contextNames]

\* getRecoilReadScopes
GetRecoilReadScopes(proj, call) ==
  LET found == IF Len(call.args) = 0 THEN <<>>
               ELSE FindProperty(call.args[1], "get",
                                 {"PropertyAssignment", "MethodDeclaration"})
      getProperty == found[1]
      rootFunctions ==
        IF found = <<>> THEN <<>>
        ELSE IF getProperty.propKind = "MethodDeclaration" THEN <<getProperty.value.fn>>
        ELSE IF /\ getProperty.value.kind = "fn"
                /\ proj.funcs[getProperty.value.fn].kind
                     \in {"ArrowFunction", "FunctionExpression"}
          THEN <<getProperty.value.fn>>
        ELSE <<>>
  IN Concat([r \in 1..Len(rootFunctions) |->
       LET nodes == GetNestedFunctionNodes(proj, rootFunctions[r])
       IN Concat([n \in 1..Len(nodes) |->
            LET binding == ExtractRecoilGetBinding(proj, nodes[n])
            IN IF binding = NoScope
                 THEN IF nodes[n] = rootFunctions[r]
                        THEN <<[NoScope EXCEPT !.scopeNode = nodes[n]]>>
                        ELSE <<>>
                 ELSE <<binding>>])])

\* isRecoilGetCall
IsRecoilGetCall(call, getNames, contextNames) ==
  IF call.calleeKind = "ident" THEN call.callee.text \in getNames
  ELSE IF call.calleeKind = "member"
    THEN /\ call.callee.text = "get"
         /\ call.baseKind = "ident"
         /\ call.base.text \in contextNames
  ELSE FALSE

\* isJotaiGetCall
IsJotaiGetCall(call, getParamName) ==
  call.calleeKind = "ident" /\ call.callee.text = getParamName

\* A variant of pushDependencyRead that gives the event the edge's via.
PushDependencyReadSameVia(ownerStateId, ownerStateName, targetStateId, call, edgeVia, eventVia) ==
  [edge |-> [fromStateId |-> ownerStateId, toStateId |-> targetStateId,
             filePath |-> call.file, line |-> call.line, column |-> call.column,
             via |-> edgeVia],
   event |-> [type |-> "read", phase |-> "dependency", stateId |-> targetStateId,
              actorType |-> "state", actorName |-> ownerStateName,
              actorStateId |-> ownerStateId,
              filePath |-> call.file, line |-> call.line, column |-> call.column,
              via |-> edgeVia]]

\* pushDependencyRead: the edge and the event pushed for one read.
PushDependencyRead(ownerStateId, ownerStateName, targetStateId, call, edgeVia, eventVia) ==
  [edge |-> [fromStateId |-> ownerStateId, toStateId |-> targetStateId,
             filePath |-> call.file, line |-> call.line, column |-> call.column,
             via |-> edgeVia],
   event |-> [type |-> "read", phase |-> "dependency", stateId |-> targetStateId,
              actorType |-> "state", actorName |-> ownerStateName,
              actorStateId |-> ownerStateId,
              filePath |-> call.file, line |-> call.line, column |-> call.column,
              via |-> eventVia]]

\* collectRecoilDependencyReads
CollectRecoilDependencyReads(owner, readScopes, jotaiKeys, proj, idx) ==
  Concat([s \in 1..Len(readScopes) |->
    LET calls == CallsWithin(proj, readScopes[s].scopeNode)
    IN Concat([i \in 1..Len(calls) |->
         LET targetState == ResolveStateFromExpression(calls[i].args, idx)
         IN IF targetState = NoState THEN <<>>
            ELSE IF IsRecoilGetCall(calls[i], readScopes[s].getNames,
                                    readScopes[s].contextNames)
              THEN <<PushDependencyRead(owner.id, owner.name, targetState, calls[i],
                                        "recoil:get", "recoil:get")>>
            ELSE IF IsJotaiStoreGetCall(calls[i], jotaiKeys)
              THEN <<PushDependencyRead(owner.id, owner.name, targetState, calls[i],
                                        "jotai:get", "jotai:store.get")>>
            ELSE <<>>])])

\* getJotaiGetParameterName
GetJotaiGetParameterName(proj, fnKey) ==
  LET fn == proj.funcs[fnKey]
  IN IF fn.kind \notin {"ArrowFunction", "FunctionExpression"} THEN "get"
     ELSE IF Len(fn.params) > 0 /\ fn.params[1].nameKind = "ident"
       THEN fn.params[1].name.text
     ELSE "get"

\* collectJotaiDependencyReads
CollectJotaiDependencyReads(owner, readFunction, proj, idx) ==
  LET calls == CallsWithin(proj, readFunction)
      getParamName == GetJotaiGetParameterName(proj, readFunction)
  IN Concat([i \in 1..Len(calls) |->
       LET targetState == ResolveStateFromExpression(calls[i].args, idx)
       IN IF ~IsJotaiGetCall(calls[i], getParamName) \/ targetState = NoState
            THEN <<>>
            ELSE <<PushDependencyRead(owner.id, owner.name, targetState, calls[i],
                                      "jotai:get", "jotai:get")>>])

\* isRecoilSelectorFactoryCall
IsRecoilSelectorFactoryCall(call, idx) ==
  /\ call.file \in DOMAIN idx.importMapByFilePath
  /\ LET factory == ResolveCalledFactory(call, idx.importMapByFilePath[call.file])
     IN factory.module = "recoil" /\ factory.imported \in {"selector", "selectorFamily"}

\* Variant that returns inline selector calls only, not the init call of a
\* referenced selector.
GetRecoilAtomDefaultSelectorCallInlineOnly(atomCall, idx) ==
  LET found == IF Len(atomCall.args) = 0 THEN <<>>
               ELSE FindProperty(atomCall.args[1], "default", {"PropertyAssignment"})
  IN IF found = <<>> THEN NoCall
     ELSE IF found[1].value.kind = "call"
               /\ IsRecoilSelectorFactoryCall(found[1].value.call, idx)
       THEN found[1].value.call
     ELSE NoCall

\* getRecoilAtomDefaultSelectorCall (NoCall stands for undefined)
GetRecoilAtomDefaultSelectorCall(atomCall, idx) ==
  LET found == IF Len(atomCall.args) = 0 THEN <<>>
               ELSE FindProperty(atomCall.args[1], "default", {"PropertyAssignment"})
      initializer == found[1].value
      referencedState == ResolveStateFromExpression(<<initializer>>, idx)
  IN IF found = <<>> THEN NoCall
     ELSE IF initializer.kind = "call" /\ IsRecoilSelectorFactoryCall(initializer.call, idx)
       THEN initializer.call
     ELSE IF \/ referencedState = NoState
             \/ idx.stateById[referencedState].store # "recoil"
             \/ idx.stateById[referencedState].kind \notin {"selector", "selectorFamily"}
       THEN NoCall
     ELSE idx.initCallByStateId[referencedState]

\* getJotaiReadFunction (NoKey stands for undefined)
GetJotaiReadFunction(proj, call) ==
  IF /\ Len(call.args) > 0
     /\ call.args[1].kind = "fn"
     /\ proj.funcs[call.args[1].fn].kind \in {"ArrowFunction", "FunctionExpression"}
    THEN call.args[1].fn ELSE NoKey

\* isJotaiDerivedFactoryCall
IsJotaiDerivedFactoryCall(call, idx) ==
  /\ call.file \in DOMAIN idx.importMapByFilePath
  /\ LET factory == ResolveCalledFactory(call, idx.importMapByFilePath[call.file])
     IN \/ factory.module = "jotai" /\ factory.imported = "atom"
        \/ factory.module = "jotai/utils" /\ factory.imported = "atomWithDefault"

\* getJotaiAtomFamilyReadFunctions
GetJotaiAtomFamilyReadFunctions(proj, atomFamilyCall, idx) ==
  LET arg == IF Len(atomFamilyCall.args) = 0 THEN ArgOther ELSE atomFamilyCall.args[1]
      familyFactoryFunctions ==
        IF arg.kind = "fn" THEN <<arg.fn>>
        ELSE IF arg.kind = "ident"
          THEN ResolveFunctionLikeNodesFromExpression("ident", arg.id)
        ELSE <<>>
  IN Concat([f \in 1..Len(familyFactoryFunctions) |->
       LET returned == SelectSeq(proj.funcs[familyFactoryFunctions[f]].returns,
                                 LAMBDA e : e.kind = "call")
       IN Concat([c \in 1..Len(returned) |->
            IF /\ IsJotaiDerivedFactoryCall(returned[c].call, idx)
               /\ GetJotaiReadFunction(proj, returned[c].call) # NoKey
              THEN <<GetJotaiReadFunction(proj, returned[c].call)>>
              ELSE <<>>])])

\* The reads one owner state contributes to buildDependencyEvents.
OwnerDependencyReads(owner, jotaiKeys, proj, idx) ==
  LET initCall == idx.initCallByStateId[owner.id]
      asSelector ==
        IF owner.store = "recoil" /\ owner.kind \in {"selector", "selectorFamily"}
          THEN CollectRecoilDependencyReads(owner, GetRecoilReadScopes(proj, initCall),
                                            jotaiKeys, proj, idx)
          ELSE <<>>
      isRecoilDefaultSelectorOwner ==
        /\ owner.store = "recoil"
        /\ owner.kind = "atomFamily" \/ (owner.kind = "atom" /\ ~owner.isRecoilPlainAtom)
      defaultSelectorCall == GetRecoilAtomDefaultSelectorCall(initCall, idx)
      \* a missing default selector call skips the rest of the iteration
      stops == isRecoilDefaultSelectorOwner /\ defaultSelectorCall = NoCall
      asDefaultOwner ==
        IF isRecoilDefaultSelectorOwner /\ defaultSelectorCall # NoCall
          THEN CollectRecoilDependencyReads(owner,
                 GetRecoilReadScopes(proj, defaultSelectorCall), jotaiKeys, proj, idx)
          ELSE <<>>
      readFunction == GetJotaiReadFunction(proj, initCall)
      asDerived ==
        IF /\ ~stops
           /\ owner.store = "jotai" /\ owner.kind \in {"derivedAtom", "atomWithDefault"}
           /\ readFunction # NoKey
          THEN CollectJotaiDependencyReads(owner, readFunction, proj, idx)
          ELSE <<>>
      readFunctions == GetJotaiAtomFamilyReadFunctions(proj, initCall, idx)
      asFamily ==
        IF ~stops /\ owner.store = "jotai" /\ owner.kind = "atomFamily"
          THEN Concat([i \in 1..Len(readFunctions) |->
                 CollectJotaiDependencyReads(owner, readFunctions[i], proj, idx)])
          ELSE <<>>
  IN asSelector \o asDefaultOwner \o asDerived \o asFamily

\* The events and the edges of the reads, in push order.
DependencyResult(reads) ==
  [usageEvents |-> [i \in 1..Len(reads) |-> reads[i].event],
   dependencyEdges |-> [i \in 1..Len(reads) |-> reads[i].edge]]

\* buildDependencyEvents / coreDependenciesExtractor.run
BuildDependencyEvents(proj, idx, jotaiKeys) ==
  DependencyResult(Concat([i \in 1..Len(idx.states) |->
                     OwnerDependencyReads(idx.states[i], jotaiKeys, proj, idx)]))

(***************************************************************************)
(* events/extensions/callbacks/index.ts                                    *)
(***************************************************************************)
\* resolveFunctionFromNode (NoKey stands for undefined)
ResolveFunctionFromNode(proj, arg) ==
  IF arg.kind = "fn"
    THEN IF proj.funcs[arg.fn].kind
              \in {"ArrowFunction", "FunctionExpression", "FunctionDeclaration"}
           THEN arg.fn ELSE NoKey
  ELSE IF arg.kind = "ident" /\ arg.id.sym # NoSym
    THEN LET keys == SelectSeq(arg.id.fnKeys, LAMBDA k :
                       proj.funcs[k].kind # "MethodDeclaration")
         IN IF keys = <<>> THEN NoKey ELSE keys[1]
  ELSE NoKey

\* resolveCallbackFactoryFunction
ResolveCallbackFactoryFunction(proj, args, importMap) ==
  IF Len(args) = 0 THEN NoKey
  ELSE IF ResolveFunctionFromNode(proj, args[1]) # NoKey
    THEN ResolveFunctionFromNode(proj, args[1])
  ELSE IF args[1].kind # "call" THEN NoKey
  ELSE IF ResolveCalledFactory(args[1].call, importMap)
            # [module |-> "react", imported |-> "useCallback"]
    THEN NoKey
  ELSE IF Len(args[1].call.args) = 0 THEN NoKey
  ELSE ResolveFunctionFromNode(proj, args[1].call.args[1])

NamesOf(ids) == {ids[i].text : i \in 1..Len(ids)}

\* parseRecoilCallbackBindings
ParseRecoilCallbackBindings(proj, fnKey) ==
  LET fn == proj.funcs[fnKey]
      none == [contextNames |-> {}, snapshotNames |-> {}, getNames |-> {},
               setNames |-> {}, resetNames |-> {}]
      p == fn.params[1]
      named(prop) == {e \in Range(p.elements) : e.prop = prop}
      collect(prop) ==
        UNION {NamesOf(CollectIdentifiersFromBindingName(e)) : e \in named(prop)}
  IN IF Len(fn.params) = 0 THEN none
     ELSE IF p.nameKind = "ident" THEN [none EXCEPT !.contextNames = {p.name.text}]
     ELSE IF p.nameKind # "object" THEN none
     ELSE [contextNames |-> {},
           setNames |-> collect("set"),
           resetNames |-> collect("reset"),
           snapshotNames |->
             {e.name.text : e \in {x \in named("snapshot") : x.nameKind = "ident"}},
           getNames |->
             UNION {UNION {NamesOf(CollectIdentifiersFromBindingName(se))
                           : se \in {x \in Range(e.inner) :
                                       x.prop \in RECOIL_SNAPSHOT_READ_METHODS}}
                    : e \in {x \in named("snapshot") : x.nameKind = "object"}}]

\* getParameterNameOrDefault
GetParameterNameOrDefault(params, i, fallbackName) ==
  IF i <= Len(params) /\ params[i].nameKind = "ident"
    THEN params[i].name.text ELSE fallbackName

\* parseJotaiAtomCallbackBindings
ParseJotaiAtomCallbackBindings(proj, fnKey) ==
  [getName |-> GetParameterNameOrDefault(proj.funcs[fnKey].params, 1, "get"),
   setName |-> GetParameterNameOrDefault(proj.funcs[fnKey].params, 2, "set")]

\* isRecoilSnapshotBase
IsRecoilSnapshotBase(call, bindings) ==
  IF call.baseKind = "ident" THEN call.base.text \in bindings.snapshotNames
  ELSE IF call.baseKind = "member"
    THEN call.base.text = "snapshot" /\ call.base2Text \in bindings.contextNames
  ELSE FALSE

\* classifyRecoilCallbackRead
ClassifyRecoilCallbackRead(call, bindings, idx) ==
  LET targetState == ResolveStateFromExpression(call.args, idx)
      via == IF call.calleeKind = "ident" /\ call.callee.text \in bindings.getNames
               THEN "recoil:snapshot." \o call.callee.text
             ELSE IF /\ call.calleeKind = "member"
                     /\ call.callee.text \in RECOIL_SNAPSHOT_READ_METHODS
                     /\ IsRecoilSnapshotBase(call, bindings)
               THEN "recoil:snapshot." \o call.callee.text
             ELSE ""
  IN IF targetState = NoState \/ via = "" THEN <<>>
     ELSE <<CreateRuntimeReadEvent(call, targetState, via)>>

\* Variant that recognises the literal names set and reset only.
ResolveRecoilCallbackMutationKindByLiteralName(call, bindings) ==
  IF call.calleeKind = "ident"
    THEN IF call.callee.text \in (bindings.setNames \cap {"set"}) THEN "set"
         ELSE IF call.callee.text \in (bindings.resetNames \cap {"reset"}) THEN "reset"
         ELSE ""
  ELSE IF call.calleeKind # "member" THEN ""
  ELSE IF call.callee.text \notin {"set", "reset"} THEN ""
  ELSE IF call.baseKind # "ident" \/ call.base.text \notin bindings.contextNames THEN ""
  ELSE call.callee.text

\* resolveRecoilCallbackMutationKind ("" stands for undefined)
ResolveRecoilCallbackMutationKind(call, bindings) ==
  IF call.calleeKind = "ident"
    THEN IF call.callee.text \in bindings.setNames THEN "set"
         ELSE IF call.callee.text \in bindings.resetNames THEN "reset"
         ELSE ""
  ELSE IF call.calleeKind # "member" THEN ""
  ELSE IF call.callee.text \notin {"set", "reset"} THEN ""
  ELSE IF call.baseKind # "ident" \/ call.base.text \notin bindings.contextNames THEN ""
  ELSE call.callee.text

\* classifyRecoilCallbackWrite
ClassifyRecoilCallbackWrite(call, bindings, idx) ==
  LET targetState == ResolveStateFromExpression(call.args, idx)
      mutationKind == ResolveRecoilCallbackMutationKind(call, bindings)
  IN IF targetState = NoState \/ mutationKind = "" THEN <<>>
     ELSE <<CreateWriteEvent(call, targetState, GetMutationVias(mutationKind)[1],
                             GetMutationVias(mutationKind)[2])>>

\* classifyJotaiAtomCallbackRead
ClassifyJotaiAtomCallbackRead(call, bindings, idx) ==
  LET targetState == ResolveStateFromExpression(call.args, idx)
  IN IF \/ call.calleeKind # "ident" \/ call.callee.text # bindings.getName
        \/ targetState = NoState
       THEN <<>>
       ELSE <<CreateRuntimeReadEvent(call, targetState, "jotai:useAtomCallback:get")>>

\* classifyJotaiAtomCallbackWrite
ClassifyJotaiAtomCallbackWrite(call, bindings, idx) ==
  LET targetState == ResolveStateFromExpression(call.args, idx)
  IN IF \/ call.calleeKind # "ident" \/ call.callee.text # bindings.setName
        \/ targetState = NoState
       THEN <<>>
       ELSE <<CreateWriteEvent(call, targetState, "set-call", "initializeState:set")>>

\* extractCallbackEvents for one source file and one callback hook.
ExtractCallbackEvents(proj, f, importMap, hookModule, hookImported, idx) ==
  LET calls == proj.calls[f]
  IN Concat([i \in 1..Len(calls) |->
       LET callbackFactory == ResolveCallbackFactoryFunction(proj, calls[i].args, importMap)
           innerCalls == CallsWithin(proj, callbackFactory)
       IN IF \/ ResolveCalledFactory(calls[i], importMap)
                  # [module |-> hookModule, imported |-> hookImported]
             \/ callbackFactory = NoKey
            THEN <<>>
            ELSE Concat([j \in 1..Len(innerCalls) |->
                   IF hookModule = "recoil"
                     THEN LET bindings == ParseRecoilCallbackBindings(proj, callbackFactory)
                          IN ClassifyRecoilCallbackRead(innerCalls[j], bindings, idx)
                               \o ClassifyRecoilCallbackWrite(innerCalls[j], bindings, idx)
                     ELSE LET bindings == ParseJotaiAtomCallbackBindings(proj, callbackFactory)
                          IN ClassifyJotaiAtomCallbackRead(innerCalls[j], bindings, idx)
                               \o ClassifyJotaiAtomCallbackWrite(innerCalls[j], bindings, idx)])])

\* callbacksExtractor.run
CallbacksExtractor(files, proj, idx) ==
  Concat([f \in 1..Len(files) |->
    ExtractCallbackEvents(proj, files[f], idx.importMapByFilePath[files[f]],
                          "recoil", "useRecoilCallback", idx)
      \o ExtractCallbackEvents(proj, files[f], idx.importMapByFilePath[files[f]],
                               "jotai/utils", "useAtomCallback", idx)])

(***************************************************************************)
(* profiles.ts, events/pipeline.ts                                         *)
(***************************************************************************)
Profiles == {"core", "press-release"}

\* FLAGS / getCapabilityFlags
\* Variant in which the core profile keeps the store API capability on.
GetCapabilityFlagsWithStoreApi(p) ==
  IF p = "core"
    THEN [callbacks |-> FALSE, wrappers |-> FALSE, forwarding |-> FALSE, storeApi |-> TRUE]
    ELSE [callbacks |-> TRUE, wrappers |-> TRUE, forwarding |-> TRUE, storeApi |-> TRUE]

GetCapabilityFlags(p) ==
  IF p = "core"
    THEN [callbacks |-> FALSE, wrappers |-> FALSE, forwarding |-> FALSE, storeApi |-> FALSE]
    ELSE [callbacks |-> TRUE, wrappers |-> TRUE, forwarding |-> TRUE, storeApi |-> TRUE]

\* Phases 1 and 2 of buildUsageEvents, given the direct or wrapper-aware
\* setter bindings: the context shared by the extractors.
PipelineContext(files, proj, idx, capabilities, directSetterBindings) ==
  [jotaiStoreSymbolKeys |->
     IF capabilities.storeApi THEN BuildJotaiStoreSymbolKeys(files, proj, idx) ELSE {},
   directSetterBindings |-> directSetterBindings,
   setterBindings |->
     IF capabilities.forwarding
       THEN PropagateSetterBindingsOneHop(files, proj, directSetterBindings)
       ELSE directSetterBindings]

\* Phase 1 of buildUsageEvents: the bindings shared by the extractors.
SharedBindings(files, proj, idx, capabilities) ==
  PipelineContext(files, proj, idx, capabilities,
                  IF capabilities.wrappers THEN BuildSetterBindings(files, proj, idx)
                  ELSE BuildDirectSetterBindings(files, proj, idx))

\* Phase 4 of buildUsageEvents: the events the extractors push, in the order
\* of the extractor list, and the edges of the dependency extractor (deps is
\* its result).
ExtractorOutputs(files, proj, idx, capabilities, ctx, deps) ==
  [usageEvents |->
     CoreDirectHooksExtractor(files, proj, idx, ctx.setterBindings,
                              ctx.jotaiStoreSymbolKeys)
       \o deps.usageEvents
       \o (IF capabilities.callbacks THEN CallbacksExtractor(files, proj, idx) ELSE <<>>)
       \o (IF capabilities.storeApi
             THEN StoreApiExtractor(files, proj, idx, ctx.jotaiStoreSymbolKeys)
             ELSE <<>>),
   dependencyEdges |-> deps.dependencyEdges]

\* Phases 3 and 4 of buildUsageEvents before the final dedupe: core direct
\* hooks and dependencies always, the extensions when enabled.
RawExtraction(files, proj, idx, capabilities, ctx) ==
  CHOOSE raw \in {ExtractorOutputs(files, proj, idx, capabilities, ctx, deps) :
                    deps \in {BuildDependencyEvents(proj, idx,
                                                    ctx.jotaiStoreSymbolKeys)}} : TRUE

\* The return of buildUsageEvents: dedupe and sort what the extractors pushed.
DedupeAndSort(raw, ctx) ==
  [usageEvents |-> DedupeUsageEvents(raw.usageEvents),
   dependencyEdges |-> DedupeDependencyEdges(raw.dependencyEdges),
   setterBindings |-> ctx.setterBindings,
   directSetterBindings |-> ctx.directSetterBindings,
   jotaiStoreSymbolKeys |-> ctx.jotaiStoreSymbolKeys]

\* Phases 3 and 4 and the return of buildUsageEvents for the context of
\* phases 1 and 2.
RunExtractors(files, proj, idx, capabilities, ctx) ==
  CHOOSE result \in {DedupeAndSort(raw, ctx) :
                       raw \in {RawExtraction(files, proj, idx, capabilities, ctx)}} :
    TRUE

\* buildUsageEvents
BuildUsageEvents(files, proj, idx, capabilities) ==
  CHOOSE result \in {RunExtractors(files, proj, idx, capabilities, ctx) :
                       ctx \in {SharedBindings(files, proj, idx, capabilities)}} :
    TRUE

(***************************************************************************)
(* analyzer.ts and rules/                                                  *)
(***************************************************************************)
\* buildReferenceIndex: the sites other than the definition where the
\* language service finds the declared name, unique by position and sorted.
BuildReferenceIndex(proj, idx) ==
  [id \in DOMAIN idx.stateById |->
     LET key == CHOOSE k \in DOMAIN idx.stateByDeclarationKey :
                  idx.stateByDeclarationKey[k] = id
     IN {<<c.file, c.line, c.column>> :
           c \in {x \in UNION {Range(proj.calls[f]) : f \in DOMAIN proj.calls} :
                    \E i \in 1..Len(x.args) :
                      \/ x.args[i].kind = "ident" /\ key \in Range(x.args[i].id.declKeys)
                      \/ /\ x.args[i].kind = "object"
                         /\ \E p \in Range(x.args[i].props) :
                              /\ p.value.kind = "ident"
                              /\ key \in Range(p.value.id.declKeys)}}]

Violation(rule, state, file, line, message, metrics) ==
  [rule |-> rule, state |-> state, file |-> file, line |-> line,
   message |-> message, metrics |-> metrics]

\* Variant that reports every edge into a jotai state, whatever its owner.
EvaluateR001AnyOwner(ctx) ==
  LET edges == ctx.dependencyEdges
  IN Concat([i \in 1..Len(edges) |->
       IF \/ edges[i].fromStateId \notin DOMAIN ctx.stateById
          \/ edges[i].toStateId \notin DOMAIN ctx.stateById
         THEN <<>>
         ELSE IF ctx.stateById[edges[i].toStateId].store = "jotai"
           THEN <<Violation("R001", ctx.stateById[edges[i].fromStateId].name,
                    edges[i].filePath, edges[i].line,
                    "Recoil selector reads Jotai state via get(...)", <<>>)>>
           ELSE <<>>])

\* evaluateR001
EvaluateR001(ctx) ==
  LET edges == ctx.dependencyEdges
  IN Concat([i \in 1..Len(edges) |->
       IF \/ edges[i].fromStateId \notin DOMAIN ctx.stateById
          \/ edges[i].toStateId \notin DOMAIN ctx.stateById
         THEN <<>>
         ELSE LET fromState == ctx.stateById[edges[i].fromStateId]
                  toState == ctx.stateById[edges[i].toStateId]
              IN IF /\ fromState.store = "recoil"
                    /\ fromState.kind \in {"selector", "selectorFamily"}
                    /\ toState.store = "jotai"
                   THEN <<Violation("R001", fromState.name, edges[i].filePath,
                            edges[i].line,
                            "Recoil selector reads Jotai state via get(...)", <<>>)>>
                   ELSE <<>>])

\* evaluateR002
EvaluateR002(ctx) ==
  LET edges == ctx.dependencyEdges
  IN Concat([i \in 1..Len(edges) |->
       IF \/ edges[i].fromStateId \notin DOMAIN ctx.stateById
          \/ edges[i].toStateId \notin DOMAIN ctx.stateById
         THEN <<>>
         ELSE LET fromState == ctx.stateById[edges[i].fromStateId]
                  toState == ctx.stateById[edges[i].toStateId]
              IN IF /\ fromState.store = "jotai"
                    /\ fromState.kind \in {"derivedAtom", "atomWithDefault"}
                    /\ toState.store = "recoil"
                   THEN <<Violation("R002", fromState.name, edges[i].filePath,
                            edges[i].line,
                            "Jotai derived atom reads Recoil state via get(...)", <<>>)>>
                   ELSE <<>>])

\* evaluateR003
EvaluateR003(ctx) ==
  Concat([i \in 1..Len(ctx.states) |->
    LET state == ctx.states[i]
    IN IF /\ state.store = "recoil"
          /\ state.kind \in {"atom", "selector"}
          /\ state.exported
          /\ ctx.referencesByStateId[state.id] = {}
         THEN <<Violation("R003", state.name, state.filePath, state.line,
                  "Exported Recoil state has zero non-ignored references", <<>>)>>
         ELSE <<>>])

\* A variant of the counters in which an init write counts as a runtime write.
R004MetricsInitAsRuntime(events, stateId) ==
  LET count(P(_)) == Cardinality({i \in 1..Len(events) :
                                    events[i].stateId = stateId /\ P(events[i])})
  IN [runtimeReads |-> count(LAMBDA e : e.type = "read" /\ e.phase = "runtime"),
      runtimeWrites |-> count(LAMBDA e : e.type \in {"runtimeWrite", "initWrite"}),
      initWrites |-> count(LAMBDA e : e.type = "initWrite")]

\* The three counters evaluateR004 keeps for one state.
R004Metrics(events, stateId) ==
  LET count(P(_)) == Cardinality({i \in 1..Len(events) :
                                    events[i].stateId = stateId /\ P(events[i])})
  IN [runtimeReads |-> count(LAMBDA e : e.type = "read" /\ e.phase = "runtime"),
      runtimeWrites |-> count(LAMBDA e : e.type = "runtimeWrite"),
      initWrites |-> count(LAMBDA e : e.type = "initWrite")]

\* evaluateR004
EvaluateR004(ctx) ==
  Concat([i \in 1..Len(ctx.states) |->
    LET state == ctx.states[i]
        metrics == R004Metrics(ctx.usageEvents, state.id)
    IN IF state.store # "recoil" \/ state.kind # "atom" \/ ~state.isRecoilPlainAtom
         THEN <<>>
       ELSE IF metrics.runtimeReads > 0 /\ metrics.runtimeWrites = 0
         THEN <<Violation("R004", state.name, state.filePath, state.line,
                  "Recoil atom is read at runtime but has no runtime writes", metrics)>>
       ELSE <<>>])

RuleOrder == <<"R001", "R002", "R003", "R004">>
RuleRank(r) == CHOOSE i \in 1..Len(RuleOrder) : RuleOrder[i] = r

\* The comparator of sortViolations; violations of one rule carry one
\* message, so the final message comparison never decides.
ViolationLess(l, r) ==
  IF l.rule # r.rule THEN RuleRank(l.rule) < RuleRank(r.rule)
  ELSE IF l.file # r.file THEN l.file < r.file
  ELSE IF l.line # r.line THEN l.line < r.line
  ELSE NameRank(l.state) < NameRank(r.state)

\* sortViolations
SortViolations(vs) == StableSort(vs, ViolationLess)

\* The rule part of runAudit.
EvaluateRules(ctx) ==
  SortViolations(EvaluateR001(ctx) \o EvaluateR002(ctx) \o EvaluateR003(ctx)
                   \o EvaluateR004(ctx))

(***************************************************************************)
(* Projects.  File 1 declares the states and the shared helpers; the       *)
(* consumers are a component in file 1 and a component in any file.        *)
(***************************************************************************)
\* An imported binding (declared outside the project).
Imp(text) == Local(text, 0, 1, 1)

\* buildImportMap of a file with the imports the projects use.
Named(module, imported) == [type |-> "named", module |-> module, imported |-> imported]

StandardImports ==
  [atom |-> Named("recoil", "atom"),
   selector |-> Named("recoil", "selector"),
   useRecoilValue |-> Named("recoil", "useRecoilValue"),
   useRecoilState |-> Named("recoil", "useRecoilState"),
   useSetRecoilState |-> Named("recoil", "useSetRecoilState"),
   useRecoilCallback |-> Named("recoil", "useRecoilCallback"),
   jotaiAtom |-> Named("jotai", "atom"),
   createStore |-> Named("jotai", "createStore"),
   useAtomValue |-> Named("jotai", "useAtomValue"),
   useSetAtom |-> Named("jotai", "useSetAtom"),
   useAtomCallback |-> Named("jotai/utils", "useAtomCallback"),
   useCallback |-> Named("react", "useCallback")]

Fragment(decls, calls, jsx, funcs) ==
  [decls |-> decls, calls |-> calls, jsx |-> jsx, funcs |-> funcs]

NoFragment == Fragment(<<>>, <<>>, <<>>, <<>>)

InDecl(name, outer) == <<Anc("VariableDeclaration", name)>> \o outer
InCall(outer) == <<Anc("CallExpression", "")>> \o outer

CounterRef == Var("counterState", 1, 1, 14)
SharedRef == Var("sharedAtom", 1, 2, 14)
StoreRef == Var("store", 1, 3, 7)
SelectorRef == Var("sourceSelector", 1, 4, 14)
MigratedRef == Var("migratedState", 1, 5, 14)
DerivedRef == Var("derivedCount", 1, 6, 14)
NotStateRef == Var("notState", 1, 7, 14)

Targets == {"counterState", "sharedAtom", "notState"}

Target(t) ==
  IF t = "counterState" THEN CounterRef
  ELSE IF t = "sharedAtom" THEN SharedRef
  ELSE IF t = "migratedState" THEN MigratedRef
  ELSE NotStateRef

Options(rest) == ArgObj(<<Prop("key", "PropertyAssignment", ArgOther)>> \o rest)

SelectorStyles == {"destructured", "context", "method", "handle", "nested"}

\* selector({ key, get: ... }) at (l, c) of file 1, reading tgt:
\*   destructured  get: ({ get }) => get(T)
\*   context       get: (ctx) => ctx.get(T)
\*   method        get({ get }) { return get(T); }
\*   handle        get: () => store.get(T)
\*   nested        get: ({ get }) => ({ get }) => get(T)
SelectorCall(l, c, style, tgt, outer) ==
  LET root == <<1, l, c + 20>>
      inner == <<1, l, c + 25>>
      rootKind == IF style = "method" THEN "MethodDeclaration" ELSE "ArrowFunction"
      rootAnc == IF style = "method" THEN InCall(outer)
                 ELSE <<Anc("PropertyAssignment", "get")>> \o InCall(outer)
      rootEntry == AncFn(rootKind, IF style = "method" THEN "get" ELSE "", l, c + 20)
      getParam(col) == ParamObj(<<ElemId("get", Local("get", 1, l, col))>>)
      readAnc == IF style = "nested"
                   THEN <<AncFn("ArrowFunction", "", l, c + 25), rootEntry>> \o rootAnc
                   ELSE <<rootEntry>> \o rootAnc
      read ==
        IF style = "context"
          THEN CallMember(1, l, c + 30, Local("ctx", 1, l, c + 21), "get",
                          <<ArgId(Target(tgt))>>, readAnc)
        ELSE IF style = "handle"
          THEN CallMember(1, l, c + 30, StoreRef, "get", <<ArgId(Target(tgt))>>, readAnc)
        ELSE IF style = "nested"
          THEN CallId(1, l, c + 30, Local("get", 1, l, c + 26),
                      <<ArgId(Target(tgt))>>, readAnc)
        ELSE CallId(1, l, c + 30, Local("get", 1, l, c + 21),
                    <<ArgId(Target(tgt))>>, readAnc)
      rootParams ==
        IF style = "context" THEN <<ParamId(Local("ctx", 1, l, c + 21))>>
        ELSE IF style = "handle" THEN <<>>
        ELSE <<getParam(c + 21)>>
      rootFn == Func(1, l, c + 20, rootKind, IF style = "method" THEN "get" ELSE "",
                     rootParams,
                     IF style = "nested" THEN <<ArgFn(inner)>> ELSE <<ArgCall(read)>>,
                     rootAnc)
      innerFn == Func(1, l, c + 25, "ArrowFunction", "", <<getParam(c + 26)>>,
                      <<ArgCall(read)>>, <<rootEntry>> \o rootAnc)
  IN [call |-> CallId(1, l, c, Imp("selector"),
                      <<Options(<<Prop("get",
                                       IF style = "method" THEN "MethodDeclaration"
                                       ELSE "PropertyAssignment",
                                       ArgFn(root))>>)>>,
                      outer),
      calls |-> <<read>>,
      funcs |-> IF style = "nested" THEN <<rootFn, innerFn>> ELSE <<rootFn>>]

\* The default of migratedState: a literal, a reference to sourceSelector, an
\* inline selector({ ... }) call, or a reference to the atom counterState.
Defaults == {"value", "reference", "inline", "atomReference"}

\* The end of file 1, after the components:
\*  40  export function relayLate(cbLate) { applyBody(cbLate); }
LibraryTail ==
  LET cbLate == Local("cbLate", 1, 40, 27)
  IN Fragment(<<>>,
       <<CallId(1, 40, 37, FnRef("applyBody", 1, 8, 8), <<ArgId(cbLate)>>,
                <<AncFn("FunctionDeclaration", "relayLate", 40, 8)>>)>>,
       <<>>,
       <<Func(1, 40, 8, "FunctionDeclaration", "relayLate", <<ParamId(cbLate)>>,
              <<>>, <<>>)>>)

\* File 1:
\*   1  export const counterState = atom({ key, default: 0 });
\*   2  export const sharedAtom = jotaiAtom(0);
\*   3  const store = createStore();
\*   4  export const sourceSelector = selector({ key, get: <style reading tgt> });
\*   5  export const migratedState = atom({ key, default: <dflt> });
\*   6  export const derivedCount = jotaiAtom((get) => get(counterState));
\*   7  export const notState = makeThing();
\*   8  export function applyBody(fn) { fn(1); }
\*   9  export function relay(cb) { applyBody(cb); }
\*  10  export function Switch({ onChecked, label }) { onChecked(true); }
\*  11  export const useSetCounter = () => useSetRecoilState(counterState);
\*  12  export function Toggle(props) {
\*        const { onChange: emit, title } = props; emit(1); }
LibraryWith(dflt, source, inline) ==
  LET counterCall ==
        CallId(1, 1, 29, Imp("atom"),
               <<Options(<<Prop("default", "PropertyAssignment", ArgOther)>>)>>,
               InDecl("counterState", <<>>))
      sharedCall == CallId(1, 2, 27, Imp("jotaiAtom"), <<ArgOther>>,
                           InDecl("sharedAtom", <<>>))
      storeCall == CallId(1, 3, 15, Imp("createStore"), <<>>, InDecl("store", <<>>))
      migratedCall ==
        CallId(1, 5, 30, Imp("atom"),
               <<Options(<<Prop("default", "PropertyAssignment",
                                IF dflt = "reference" THEN ArgId(SelectorRef)
                                ELSE IF dflt = "inline" THEN ArgCall(inline.call)
                                ELSE IF dflt = "atomReference" THEN ArgId(CounterRef)
                                ELSE ArgOther)>>)>>,
               InDecl("migratedState", <<>>))
      derivedFn == AncFn("ArrowFunction", "", 6, 39)
      derivedRead == CallId(1, 6, 48, Local("get", 1, 6, 40), <<ArgId(CounterRef)>>,
                            <<derivedFn>> \o InCall(InDecl("derivedCount", <<>>)))
      derivedCall == CallId(1, 6, 29, Imp("jotaiAtom"), <<ArgFn(<<1, 6, 39>>)>>,
                            InDecl("derivedCount", <<>>))
      thingCall == CallId(1, 7, 25, Unresolved("makeThing"), <<>>,
                          InDecl("notState", <<>>))
      applyFn == AncFn("FunctionDeclaration", "applyBody", 8, 8)
      fnParam == Local("fn", 1, 8, 27)
      fnCall == CallId(1, 8, 33, fnParam, <<ArgOther>>, <<applyFn>>)
      relayFn == AncFn("FunctionDeclaration", "relay", 9, 8)
      cbParam == Local("cb", 1, 9, 23)
      relayCall == CallId(1, 9, 29, FnRef("applyBody", 1, 8, 8), <<ArgId(cbParam)>>,
                          <<relayFn>>)
      switchFn == AncFn("FunctionDeclaration", "Switch", 10, 8)
      onChecked == Local("onChecked", 1, 10, 26)
      label == Local("label", 1, 10, 37)
      checkedCall == CallId(1, 10, 48, onChecked, <<ArgOther>>, <<switchFn>>)
      wrapperFn == AncFn("ArrowFunction", "", 11, 30)
      wrapperCall == CallId(1, 11, 36, Imp("useSetRecoilState"), <<ArgId(CounterRef)>>,
                            <<wrapperFn>> \o InDecl("useSetCounter", <<>>))
      toggleFn == AncFn("FunctionDeclaration", "Toggle", 12, 8)
      props == Local("props", 1, 12, 24)
      emit == Local("emit", 1, 12, 52)
      title == Local("title", 1, 12, 58)
      changeCall == CallId(1, 12, 76, emit, <<ArgOther>>, <<toggleFn>>)
  IN Fragment(
       <<DeclId(1, 1, 14, CounterRef, TRUE, counterCall, <<>>),
         DeclId(1, 2, 14, SharedRef, TRUE, sharedCall, <<>>),
         DeclId(1, 3, 7, StoreRef, TRUE, storeCall, <<>>),
         DeclId(1, 4, 14, SelectorRef, TRUE, source.call, <<>>),
         DeclId(1, 5, 14, MigratedRef, TRUE, migratedCall, <<>>),
         DeclId(1, 6, 14, DerivedRef, TRUE, derivedCall, <<>>),
         DeclId(1, 7, 14, NotStateRef, TRUE, thingCall, <<>>),
         DeclId(1, 11, 14, Var("useSetCounter", 1, 11, 14), TRUE, NoCall, <<>>),
         DeclPattern(1, 12, 40, "object",
                     <<ElemId("onChange", emit), ElemId("title", title)>>, NoCall,
                     props, <<toggleFn>>)>>,
       <<counterCall, sharedCall, storeCall, source.call>> \o source.calls
         \o <<migratedCall>>
         \o (IF dflt = "inline" THEN <<inline.call>> \o inline.calls ELSE <<>>)
         \o <<derivedCall, derivedRead, thingCall, fnCall, relayCall, checkedCall,
              wrapperCall, changeCall>>,
       <<>>,
       source.funcs
         \o (IF dflt = "inline" THEN inline.funcs ELSE <<>>)
         \o <<Func(1, 6, 39, "ArrowFunction", "", <<ParamId(Local("get", 1, 6, 40))>>,
                   <<ArgCall(derivedRead)>>, InCall(InDecl("derivedCount", <<>>))),
              Func(1, 8, 8, "FunctionDeclaration", "applyBody", <<ParamId(fnParam)>>,
                   <<>>, <<>>),
              Func(1, 9, 8, "FunctionDeclaration", "relay", <<ParamId(cbParam)>>,
                   <<>>, <<>>),
              Func(1, 10, 8, "FunctionDeclaration", "Switch",
                   <<ParamObj(<<ElemId("onChecked", onChecked), ElemId("label", label)>>)>>,
                   <<>>, <<>>),
              Func(1, 11, 30, "ArrowFunction", "", <<>>, <<ArgCall(wrapperCall)>>,
                   InDecl("useSetCounter", <<>>)),
              Func(1, 12, 8, "FunctionDeclaration", "Toggle", <<ParamId(props)>>,
                   <<>>, <<>>)>>)

Library(style, tgt, dflt) ==
  LibraryWith(dflt,
    SelectorCall(4, 31, style, tgt, InDecl("sourceSelector", <<>>)),
    SelectorCall(5, 45, "destructured", "counterState",
      <<Anc("PropertyAssignment", "default")>> \o InDecl("migratedState", <<>>)))

\* A reference to a custom hook of file 1: a function declaration, or a
\* variable initialised with an arrow function at column c.
HookFn(name, l) == FnRef(name, 1, l, 8)
HookVar(name, l, c) == [Var(name, 1, l, 14) EXCEPT !.fnKeys = << <<1, l, c>> >>]

HookRef(hook) ==
  IF hook = "useSetCounter" THEN HookVar(hook, 11, 30)
  ELSE IF hook = "useLoop" THEN HookVar(hook, 13, 24)
  ELSE IF hook = "useCounterPair" THEN HookVar(hook, 14, 31)
  ELSE IF hook = "useCounterApi" THEN HookFn(hook, 15)
  ELSE IF hook = "useChained" THEN HookVar(hook, 16, 27)
  ELSE IF hook = "useChainedTwice" THEN HookVar(hook, 17, 32)
  ELSE IF hook = "useViaLocal" THEN HookFn(hook, 18)
  ELSE IF hook = "useSecond" THEN HookFn(hook, 19)
  ELSE IF hook = "usePing" THEN HookVar(hook, 41, 24)
  ELSE HookFn("usePong", 42)

\* The custom hooks of file 1 declared before the components:
\*  13  export const useLoop = () => useLoop();
\*  14  export const useCounterPair = () => useRecoilState(counterState);
\*  15  export function useCounterApi() {
\*        const setLocal = useSetRecoilState(counterState);
\*        const setAtom = useSetAtom(sharedAtom);
\*        return { setLocal, change: setAtom, noop: notState, boxed: { setLocal } }; }
\*  16  export const useChained = () => useSetCounter();
\*  17  export const useChainedTwice = () => useChained();
\*  18  export function useViaLocal() { const setInner = useSetCounter(); return setInner; }
\*  19  export function useSecond() {
\*        const [held, setHeld] = useRecoilState(counterState); return setHeld; }
WrapperHooks ==
  LET arrowIn(name, l, c) == <<AncFn("ArrowFunction", "", l, c)>> \o InDecl(name, <<>>)
      hookDecl(name, l) == DeclId(1, l, 14, Var(name, 1, l, 14), TRUE, NoCall, <<>>)
      arrowHook(name, l, c, call) ==
        Func(1, l, c, "ArrowFunction", "", <<>>, <<ArgCall(call)>>, InDecl(name, <<>>))
      loopCall == CallId(1, 13, 30, HookRef("useLoop"), <<>>, arrowIn("useLoop", 13, 24))
      pairCall == CallId(1, 14, 37, Imp("useRecoilState"), <<ArgId(CounterRef)>>,
                         arrowIn("useCounterPair", 14, 31))
      apiFn == <<AncFn("FunctionDeclaration", "useCounterApi", 15, 8)>>
      setLocal == Var("setLocal", 1, 15, 41)
      setAtom == Var("setAtom", 1, 15, 90)
      localCall == CallId(1, 15, 52, Imp("useSetRecoilState"), <<ArgId(CounterRef)>>,
                          InDecl("setLocal", apiFn))
      atomCall == CallId(1, 15, 100, Imp("useSetAtom"), <<ArgId(SharedRef)>>,
                         InDecl("setAtom", apiFn))
      chainedCall == CallId(1, 16, 33, HookRef("useSetCounter"), <<>>,
                            arrowIn("useChained", 16, 27))
      twiceCall == CallId(1, 17, 38, HookRef("useChained"), <<>>,
                          arrowIn("useChainedTwice", 17, 32))
      viaFn == <<AncFn("FunctionDeclaration", "useViaLocal", 18, 8)>>
      setInner == Var("setInner", 1, 18, 39)
      innerCall == CallId(1, 18, 50, HookRef("useSetCounter"), <<>>,
                          InDecl("setInner", viaFn))
      secondFn == <<AncFn("FunctionDeclaration", "useSecond", 19, 8)>>
      setHeld == Local("setHeld", 1, 19, 44)
      heldCall == CallId(1, 19, 55, Imp("useRecoilState"), <<ArgId(CounterRef)>>,
                         <<Anc("VariableDeclaration", "")>> \o secondFn)
  IN Fragment(
       <<hookDecl("useLoop", 13), hookDecl("useCounterPair", 14),
         DeclId(1, 15, 41, setLocal, FALSE, localCall, apiFn),
         DeclId(1, 15, 90, setAtom, FALSE, atomCall, apiFn),
         hookDecl("useChained", 16), hookDecl("useChainedTwice", 17),
         DeclId(1, 18, 39, setInner, FALSE, innerCall, viaFn),
         DeclPattern(1, 19, 37, "array",
                     <<ElemId("", Local("held", 1, 19, 38)), ElemId("", setHeld)>>,
                     heldCall, Unresolved(""), secondFn)>>,
       <<loopCall, pairCall, localCall, atomCall, chainedCall, twiceCall, innerCall,
         heldCall>>,
       <<>>,
       <<arrowHook("useLoop", 13, 24, loopCall),
         arrowHook("useCounterPair", 14, 31, pairCall),
         Func(1, 15, 8, "FunctionDeclaration", "useCounterApi", <<>>,
              <<ArgObj(<<Prop("setLocal", "ShorthandPropertyAssignment", ArgId(setLocal)),
                         Prop("change", "PropertyAssignment", ArgId(setAtom)),
                         Prop("noop", "PropertyAssignment", ArgId(NotStateRef)),
                         Prop("boxed", "PropertyAssignment", ArgOther)>>)>>,
              <<>>),
         arrowHook("useChained", 16, 27, chainedCall),
         arrowHook("useChainedTwice", 17, 32, twiceCall),
         Func(1, 18, 8, "FunctionDeclaration", "useViaLocal", <<>>,
              <<ArgId(setInner)>>, <<>>),
         Func(1, 19, 8, "FunctionDeclaration", "useSecond", <<>>,
              <<ArgId(setHeld)>>, <<>>)>>)

\* The custom hooks of file 1 declared after the components, which call each
\* other in a cycle (through a return expression and through an inner
\* declaration):
\*  41  export const usePing = () => usePong();
\*  42  export function usePong() {
\*        const again = usePing(); if (again) return again;
\*        return useSetRecoilState(counterState); }
CyclicHooks ==
  LET pingFn == <<AncFn("ArrowFunction", "", 41, 24)>> \o InDecl("usePing", <<>>)
      pongFn == <<AncFn("FunctionDeclaration", "usePong", 42, 8)>>
      again == Var("again", 1, 42, 34)
      pongCall == CallId(1, 41, 30, HookRef("usePong"), <<>>, pingFn)
      pingCall == CallId(1, 42, 42, HookRef("usePing"), <<>>, InDecl("again", pongFn))
      directCall == CallId(1, 42, 80, Imp("useSetRecoilState"), <<ArgId(CounterRef)>>,
                           pongFn)
  IN Fragment(
       <<DeclId(1, 41, 14, Var("usePing", 1, 41, 14), TRUE, NoCall, <<>>),
         DeclId(1, 42, 34, again, FALSE, pingCall, pongFn)>>,
       <<pongCall, pingCall, directCall>>,
       <<>>,
       <<Func(1, 41, 24, "ArrowFunction", "", <<>>, <<ArgCall(pongCall)>>,
              InDecl("usePing", <<>>)),
         Func(1, 42, 8, "FunctionDeclaration", "usePong", <<>>,
              <<ArgId(again), ArgCall(directCall)>>, <<>>)>>)

\* How a consumer takes what a custom hook returns:
\*   ident    const setCount = useHook();
\*   array    const [count, setCount] = useHook();
\*   object   const { prop: setCount } = useHook();
WrapperUse(hook, form, prop) == [hook |-> hook, form |-> form, prop |-> prop]

WrapperUses ==
  [useSetCounter |-> WrapperUse("useSetCounter", "ident", ""),
   useLoop |-> WrapperUse("useLoop", "ident", ""),
   useChained |-> WrapperUse("useChained", "ident", ""),
   useChainedTwice |-> WrapperUse("useChainedTwice", "ident", ""),
   useViaLocal |-> WrapperUse("useViaLocal", "ident", ""),
   useSecond |-> WrapperUse("useSecond", "ident", ""),
   usePing |-> WrapperUse("usePing", "ident", ""),
   usePong |-> WrapperUse("usePong", "ident", ""),
   useCounterPair |-> WrapperUse("useCounterPair", "array", ""),
   pairAsSetter |-> WrapperUse("useCounterPair", "ident", ""),
   setterAsPair |-> WrapperUse("useSetCounter", "array", ""),
   apiSetLocal |-> WrapperUse("useCounterApi", "object", "setLocal"),
   apiChange |-> WrapperUse("useCounterApi", "object", "change"),
   apiNoop |-> WrapperUse("useCounterApi", "object", "noop"),
   apiBoxed |-> WrapperUse("useCounterApi", "object", "boxed")]

(***************************************************************************)
(* Consumers: one component per fragment, declared at line L of file f.    *)
(***************************************************************************)
Prefixes ==
  {"component", "handler", "effect", "onClickJsx", "initializeDecl",
   "initializeArrow", "initializeJsx", "initializeProp", "method", "memoInVar",
   "namedExpression"}

\* The ancestors of a write site between the site and its component:
\*   component        (directly in the component body)
\*   handler          const onClick = () => { SITE }
\*   effect           useEffect(() => { SITE })
\*   onClickJsx       <button onClick={() => { SITE }} />
\*   initializeDecl   function initializeCounter() { SITE }
\*   initializeArrow  const initializeApp = () => { SITE }
\*   initializeJsx    <RecoilRoot initializeState={() => { SITE }} />
\*   initializeProp   const rootProps = { initializeState: () => { SITE } }
\*   method           const api = { initializeStore() { SITE } }
\*   memoInVar        const initialized = useMemo(() => { SITE }, [])
\*   namedExpression  const handler = function initializeCounter() { SITE }
ChainPrefix(p, L) ==
  LET arrow == AncFn("ArrowFunction", "", L + 2, 20)
  IN IF p = "handler" THEN <<arrow, Anc("VariableDeclaration", "onClick")>>
     ELSE IF p = "effect" THEN <<arrow, Anc("CallExpression", "")>>
     ELSE IF p = "onClickJsx" THEN <<arrow, Anc("JsxAttribute", "onClick")>>
     ELSE IF p = "initializeDecl"
       THEN <<AncFn("FunctionDeclaration", "initializeCounter", L + 2, 3)>>
     ELSE IF p = "initializeArrow"
       THEN <<arrow, Anc("VariableDeclaration", "initializeApp")>>
     ELSE IF p = "initializeJsx" THEN <<arrow, Anc("JsxAttribute", "initializeState")>>
     ELSE IF p = "initializeProp"
       THEN <<arrow, Anc("PropertyAssignment", "initializeState"),
              Anc("VariableDeclaration", "rootProps")>>
     ELSE IF p = "method"
       THEN <<AncFn("MethodDeclaration", "initializeStore", L + 2, 20),
              Anc("VariableDeclaration", "api")>>
     ELSE IF p = "memoInVar"
       THEN <<arrow, Anc("CallExpression", ""),
              Anc("VariableDeclaration", "initialized")>>
     ELSE IF p = "namedExpression"
       THEN <<AncFn("FunctionExpression", "initializeCounter", L + 2, 20),
              Anc("VariableDeclaration", "handler")>>
     ELSE <<>>

Shape(site, prefix, tgt, name) ==
  [site |-> site, prefix |-> prefix, tgt |-> tgt, name |-> name]

SetterHook(tgt) == IF tgt = "sharedAtom" THEN "useSetAtom" ELSE "useSetRecoilState"
ReadHook(tgt) == IF tgt = "sharedAtom" THEN "useAtomValue" ELSE "useRecoilValue"

\* The fragment a shape stands for, in component comp at line L of file f;
\* setter is the name the component gives its setter.
Consumer(shape, f, L, comp, setter) ==
  LET compFn == AncFn("FunctionDeclaration", comp, L, 8)
      body == <<compFn>>
      chain == ChainPrefix(shape.prefix, L) \o body
      tgt == Target(shape.tgt)
      \* const value = useRecoilValue(T);
      readCall == CallId(f, L + 1, 17, Imp(ReadHook(shape.tgt)), <<ArgId(tgt)>>,
                         InDecl("value", body))
      readDecl == DeclId(f, L + 1, 9, Var("value", f, L + 1, 9), FALSE, readCall, body)
      \* const setCount = useSetRecoilState(T);
      setterId == Var(setter, f, L + 1, 9)
      hookCall == CallId(f, L + 1, 20, Imp(SetterHook(shape.tgt)), <<ArgId(tgt)>>,
                         InDecl(setter, body))
      setterDecl == DeclId(f, L + 1, 9, setterId, FALSE, hookCall, body)
      \* const [count, setCount] = useRecoilState(T);
      tupleSetter == Local(setter, f, L + 1, 17)
      tupleCall == CallId(f, L + 1, 30, Imp("useRecoilState"), <<ArgId(tgt)>>,
                          <<Anc("VariableDeclaration", "")>> \o body)
      tupleDecl == DeclPattern(f, L + 1, 9, "array",
                     <<ElemId("", Local("count", f, L + 1, 10)), ElemId("", tupleSetter)>>,
                     tupleCall, Unresolved(""), body)
      \* const setCount = useSetCounter();  (or a pattern, see WrapperUses)
      use == IF shape.site = "wrapper" THEN WrapperUses[shape.name]
             ELSE WrapperUses.useSetCounter
      objectSetter == Local(setter, f, L + 1, 24)
      wrapperSetter == IF use.form = "ident" THEN setterId
                       ELSE IF use.form = "array" THEN tupleSetter
                       ELSE objectSetter
      wrapperCall == CallId(f, L + 1, 40, HookRef(use.hook), <<>>,
                            IF use.form = "ident" THEN InDecl(setter, body)
                            ELSE <<Anc("VariableDeclaration", "")>> \o body)
      wrapperDecl ==
        IF use.form = "ident" THEN DeclId(f, L + 1, 9, setterId, FALSE, wrapperCall, body)
        ELSE IF use.form = "array"
          THEN DeclPattern(f, L + 1, 9, "array",
                 <<ElemId("", Local("count", f, L + 1, 10)), ElemId("", tupleSetter)>>,
                 wrapperCall, Unresolved(""), body)
        ELSE DeclPattern(f, L + 1, 9, "object", <<ElemId(use.prop, objectSetter)>>,
                         wrapperCall, Unresolved(""), body)
      \* const run = useRecoilCallback(({ set, snapshot: { getPromise } }) => () => {
      \*   getPromise(T); set(T, 1); });
      outerKey == <<f, L + 1, 35>>
      innerKey == <<f, L + 1, 70>>
      outerAnc == InCall(InDecl(shape.name, body))
      outerEntry == AncFn("ArrowFunction", "", L + 1, 35)
      cbChain == <<AncFn("ArrowFunction", "", L + 1, 70), outerEntry>> \o outerAnc
      recoilSet == Local("set", f, L + 1, 38)
      recoilGet == Local("getPromise", f, L + 1, 55)
      recoilCb == CallId(f, L + 1, 15, Imp("useRecoilCallback"), <<ArgFn(outerKey)>>,
                         InDecl(shape.name, body))
      recoilFns ==
        <<Func(f, L + 1, 35, "ArrowFunction", "",
               <<ParamObj(<<ElemId("set", recoilSet),
                            ElemObj("snapshot", <<ElemId("getPromise", recoilGet)>>)>>)>>,
               <<ArgFn(innerKey)>>, outerAnc),
          Func(f, L + 1, 70, "ArrowFunction", "", <<>>, <<>>, <<outerEntry>> \o outerAnc)>>
      \* const run = useAtomCallback(useCallback((get, set) => {
      \*   get(T); set(T, 1); }, []));
      jotaiKey == <<f, L + 1, 43>>
      jotaiAnc == InCall(InCall(InDecl(shape.name, body)))
      jotaiChain == <<AncFn("ArrowFunction", "", L + 1, 43)>> \o jotaiAnc
      \* (initializeWith names the parameters (read, write) instead)
      jotaiGet == Local(IF shape.name = "initializeWith" THEN "read" ELSE "get",
                        f, L + 1, 44)
      jotaiSet == Local(IF shape.name = "initializeWith" THEN "write" ELSE "set",
                        f, L + 1, 49)
      useCallbackCall == CallId(f, L + 1, 31, Imp("useCallback"),
                                <<ArgFn(jotaiKey), ArgOther>>,
                                InCall(InDecl(shape.name, body)))
      jotaiCb == CallId(f, L + 1, 15, Imp("useAtomCallback"), <<ArgCall(useCallbackCall)>>,
                        InDecl(shape.name, body))
      cbDecl(call) == DeclId(f, L + 1, 9, Var(shape.name, f, L + 1, 9), FALSE, call, body)
      \* const increment = useRecoilCallback(
      \*   ({ set: apply, reset: clear, refresh: other }) => () => {
      \*     apply(T, 1); clear(T); other(T); }, []);
      \*   context    (ctx) => () => { ctx.set(T, 1); ctx.reset(T); ctx.refresh(T); }
      \*   memo       useRecoilCallback(useCallback(({ set: apply, ... }) => ..., []))
      \*   twice      useRecoilCallback(useCallback(useCallback(..., []), []))
      \*   initAlias  the variable is named initializeAll
      \*   swapped    ({ set: reset, reset: set, refresh: other }) => () => {
      \*                reset(T, 1); set(T); other(T); }
      \* import { sourceSelector as base } from "./state";
      \* export const NAME = atom({ key, default: base });
      twinCall == CallId(f, L + 1, 30, Imp("atom"),
                         <<Options(<<Prop("default", "PropertyAssignment",
                                          ArgId(SelectorRef))>>)>>,
                         InDecl(shape.name, <<>>))
      announceParam == Local(shape.name, f, L + 7, 19)
      shadowParam == Local(IF shape.name = "renamed" THEN "notify" ELSE setter,
                           f, L + 5, 17)
      aliasVar == IF shape.name = "initAlias" THEN "initializeAll" ELSE "increment"
      wraps == IF shape.name = "memo" THEN 1 ELSE IF shape.name = "twice" THEN 2 ELSE 0
      aliasDeclAnc == InDecl(aliasVar, body)
      aliasAnc == IF wraps = 0 THEN InCall(aliasDeclAnc)
                  ELSE IF wraps = 1 THEN InCall(InCall(aliasDeclAnc))
                  ELSE InCall(InCall(InCall(aliasDeclAnc)))
      aliasChain == <<AncFn("ArrowFunction", "", L + 1, 70), outerEntry>> \o aliasAnc
      applyId == Local(IF shape.name = "swapped" THEN "reset" ELSE "apply", f, L + 1, 43)
      clearId == Local(IF shape.name = "swapped" THEN "set" ELSE "clear", f, L + 1, 57)
      otherId == Local("other", f, L + 1, 64)
      ctxId == Local("ctx", f, L + 1, 36)
      innerWrap == CallId(f, L + 1, 33, Imp("useCallback"), <<ArgFn(outerKey), ArgOther>>,
                          IF wraps = 1 THEN InCall(aliasDeclAnc)
                          ELSE InCall(InCall(aliasDeclAnc)))
      outerWrap == CallId(f, L + 1, 32, Imp("useCallback"), <<ArgCall(innerWrap), ArgOther>>,
                          InCall(aliasDeclAnc))
      aliasCb == CallId(f, L + 1, 15, Imp("useRecoilCallback"),
                        <<IF wraps = 0 THEN ArgFn(outerKey)
                          ELSE IF wraps = 1 THEN ArgCall(innerWrap)
                          ELSE ArgCall(outerWrap)>>,
                        aliasDeclAnc)
      aliasCalls ==
        IF shape.name = "context"
          THEN <<CallMember(f, L + 2, 5, ctxId, "set", <<ArgId(tgt), ArgOther>>, aliasChain),
                 CallMember(f, L + 3, 5, ctxId, "reset", <<ArgId(tgt)>>, aliasChain),
                 CallMember(f, L + 4, 5, ctxId, "refresh", <<ArgId(tgt)>>, aliasChain)>>
          ELSE <<CallId(f, L + 2, 5, applyId, <<ArgId(tgt), ArgOther>>, aliasChain),
                 CallId(f, L + 3, 5, clearId, <<ArgId(tgt)>>, aliasChain),
                 CallId(f, L + 4, 5, otherId, <<ArgId(tgt)>>, aliasChain)>>
      aliasFns ==
        <<Func(f, L + 1, 35, "ArrowFunction", "",
               IF shape.name = "context" THEN <<ParamId(ctxId)>>
               ELSE <<ParamObj(<<ElemId("set", applyId), ElemId("reset", clearId),
                                 ElemId("refresh", otherId)>>)>>,
               <<ArgFn(innerKey)>>, aliasAnc),
          Func(f, L + 1, 70, "ArrowFunction", "", <<>>, <<>>, <<outerEntry>> \o aliasAnc)>>
  IN IF shape.site = "read" THEN Fragment(<<readDecl>>, <<readCall>>, <<>>, <<>>)
     \* set(T, 1) / reset(T)
     ELSE IF shape.site = "mutation"
       THEN Fragment(<<>>,
              <<CallId(f, L + 3, 5, Local(shape.name, f, L + 2, 21),
                       <<ArgId(tgt), ArgOther>>, chain)>>, <<>>, <<>>)
     \* ctx.set(T, 1) / ctx.reset(T), ctx not a store handle
     ELSE IF shape.site = "memberMutation"
       THEN Fragment(<<>>,
              <<CallMember(f, L + 3, 5, Local("ctx", f, L + 2, 21), shape.name,
                           <<ArgId(tgt), ArgOther>>, chain)>>, <<>>, <<>>)
     \* setCount(1)
     ELSE IF shape.site = "setterCall"
       THEN Fragment(<<setterDecl>>,
              <<hookCall, CallId(f, L + 3, 5, setterId, <<ArgOther>>, chain)>>,
              <<>>, <<>>)
     \* <button NAME={setCount} />
     ELSE IF shape.site = "setterRef"
       THEN Fragment(<<tupleDecl>>, <<tupleCall>>,
              <<JsxAttr(f, L + 4, 20, shape.name, "ident", tupleSetter, "ident",
                        Unresolved("button"),
                        <<Anc("JsxAttribute", shape.name)>> \o chain)>>, <<>>)
     \* <button NAME={count > 0 && setCount} />: the attribute's expression is
     \* the binary expression, setCount one of its operands.
     ELSE IF shape.site = "setterRefPart"
       THEN Fragment(<<tupleDecl>>, <<tupleCall>>,
              <<JsxAttr(f, L + 4, 20, shape.name, "binary", tupleSetter, "ident",
                        Unresolved("button"),
                        <<Anc("JsxAttribute", shape.name)>> \o chain)>>, <<>>)
     \* const setCount = useSetRecoilState(T);      (in the component)
     \* function report(setCount) { setCount(1); }   (after the component)
     \*   alone    the component declares no setter
     \*   renamed  the parameter is named notify
     \* const setOther = useSetAtom(T); announce(setOther);   (in the component)
     \* function announce(setCount) { setCount(1); }           (after it)
     ELSE IF shape.site = "forwardShadow"
       THEN Fragment(<<setterDecl>>,
              <<hookCall,
                CallId(f, L + 3, 5, FnRef("announce", f, L + 7, 8),
                       <<ArgId(setterId)>>, chain),
                CallId(f, L + 8, 5, announceParam, <<ArgOther>>,
                       <<AncFn("FunctionDeclaration", "announce", L + 7, 8)>>)>>,
              <<>>,
              <<Func(f, L + 7, 8, "FunctionDeclaration", "announce",
                     <<ParamId(announceParam)>>, <<>>, <<>>)>>)
     ELSE IF shape.site = "twinAtom"
       THEN Fragment(<<DeclId(f, L + 1, 14, Var(shape.name, f, L + 1, 14), TRUE,
                              twinCall, <<>>)>>,
                     <<twinCall>>, <<>>, <<>>)
     ELSE IF shape.site = "shadowCall"
       THEN Fragment(
              IF shape.name = "alone" THEN <<>> ELSE <<setterDecl>>,
              (IF shape.name = "alone" THEN <<>> ELSE <<hookCall>>)
                \o <<CallId(f, L + 6, 5, shadowParam, <<ArgOther>>,
                             <<AncFn("FunctionDeclaration", "report", L + 5, 8)>>)>>,
              <<>>,
              <<Func(f, L + 5, 8, "FunctionDeclaration", "report",
                     <<ParamId(shadowParam)>>, <<>>, <<>>)>>)
     ELSE IF shape.site = "recoilAlias"
       THEN Fragment(
              <<DeclId(f, L + 1, 9, Var(aliasVar, f, L + 1, 9), FALSE, aliasCb, body)>>,
              (IF wraps = 0 THEN <<aliasCb>>
               ELSE IF wraps = 1 THEN <<aliasCb, innerWrap>>
               ELSE <<aliasCb, outerWrap, innerWrap>>) \o aliasCalls,
              <<>>, aliasFns)
     ELSE IF shape.site = "recoilCallback"
       THEN Fragment(<<cbDecl(recoilCb)>>,
              <<recoilCb,
                CallId(f, L + 2, 5, recoilGet, <<ArgId(tgt)>>, cbChain),
                CallId(f, L + 3, 5, recoilSet, <<ArgId(tgt), ArgOther>>, cbChain)>>,
              <<>>, recoilFns)
     ELSE IF shape.site = "jotaiCallback"
       THEN Fragment(<<cbDecl(jotaiCb)>>,
              <<jotaiCb, useCallbackCall,
                CallId(f, L + 2, 5, jotaiGet, <<ArgId(tgt)>>, jotaiChain),
                CallId(f, L + 3, 5, jotaiSet, <<ArgId(tgt), ArgOther>>, jotaiChain)>>,
              <<>>,
              <<Func(f, L + 1, 43, "ArrowFunction", "",
                     <<ParamId(jotaiGet), ParamId(jotaiSet)>>, <<>>, jotaiAnc)>>)
     \* store.set(T, 1) / store.reset(T)
     ELSE IF shape.site = "storeSet"
       THEN Fragment(<<>>,
              <<CallMember(f, L + 3, 5, StoreRef,
                           IF shape.name = "reset" THEN "reset" ELSE "set",
                           <<ArgId(tgt), ArgOther>>, chain)>>,
              <<>>, <<>>)
     \* applyBody(setCount) / relay(setCount) / relayLate(setCount) /
     \* Switch(setCount)
     ELSE IF shape.site = "forwardCall"
       THEN Fragment(<<setterDecl>>,
              <<hookCall,
                CallId(f, L + 3, 5,
                       FnRef(shape.name, 1,
                             IF shape.name = "relay" THEN 9
                             ELSE IF shape.name = "relayLate" THEN 40
                             ELSE IF shape.name = "Switch" THEN 10 ELSE 8, 8),
                       <<ArgId(setterId)>>, chain)>>,
              <<>>, <<>>)
     \* <Switch onChecked={setCount} /> / <Toggle onChange={setCount} />
     ELSE IF shape.site = "forwardJsx"
       THEN Fragment(<<setterDecl>>, <<hookCall>>,
              <<JsxAttr(f, L + 4, 30,
                        IF shape.name = "Switch" THEN "onChecked" ELSE "onChange",
                        "ident", setterId, "ident",
                        FnRef(shape.name, 1, IF shape.name = "Switch" THEN 10 ELSE 12, 8),
                        <<Anc("JsxAttribute",
                              IF shape.name = "Switch" THEN "onChecked" ELSE "onChange")>>
                          \o chain)>>, <<>>)
     \* const setCount = useSetCounter(); setCount(1)
     ELSE IF shape.site = "wrapper"
       THEN Fragment(<<wrapperDecl>>,
              <<wrapperCall, CallId(f, L + 3, 5, wrapperSetter, <<ArgOther>>, chain)>>,
              <<>>, <<>>)
     ELSE NoFragment

\* The shapes of the component of file 1.
ShapesA ==
  {Shape("none", "component", "counterState", "")}
    \cup {Shape("read", "component", t, "") : t \in Targets}
    \cup {Shape("mutation", p, "counterState", "set") : p \in Prefixes}
    \cup {Shape("mutation", "component", t, "reset") : t \in Targets}
    \cup {Shape("memberMutation", p, "counterState", n) :
            p \in {"component", "initializeArrow"}, n \in {"set", "reset"}}
    \cup {Shape("storeSet", "component", "sharedAtom", "reset")}
    \cup {Shape("setterCall", p, "counterState", "") : p \in Prefixes}
    \cup {Shape("setterRef", p, "counterState", n) :
            p \in {"component", "initializeArrow"}, n \in {"onClick", "handler"}}
    \cup {Shape("setterRef", "component", "counterState", n) : n \in {"once", "icon"}}
    \cup {Shape("setterRefPart", "component", "counterState", "onClick")}
    \cup {Shape(s, "component", "counterState", n) :
            s \in {"recoilCallback", "jotaiCallback"}, n \in {"run", "initializeAll"}}
    \cup {Shape("recoilAlias", "component", "counterState", n) :
            n \in {"alias", "context", "memo", "twice", "initAlias", "swapped"}}
    \cup {Shape("recoilAlias", "component", "notState", "alias")}
    \cup {Shape("shadowCall", "component", "counterState", n) :
            n \in {"shadowed", "alone", "renamed"}}
    \cup {Shape("jotaiCallback", "component", "sharedAtom", n) :
            n \in {"run", "initializeAll", "initializeWith"}}
    \cup {Shape("storeSet", p, "sharedAtom", "") : p \in {"component", "initializeArrow"}}
    \cup {Shape("forwardCall", "component", "counterState", n) : n \in {"applyBody", "relay", "relayLate", "Switch"}}
    \cup {Shape("forwardJsx", "component", "counterState", n) : n \in {"Switch", "Toggle"}}
    \cup {Shape("wrapper", "component", "counterState", n) : n \in DOMAIN WrapperUses}

\* The shapes of the second component.
ShapesB ==
  {Shape("none", "component", "counterState", ""),
   Shape("read", "component", "counterState", ""),
   Shape("setterCall", "component", "counterState", ""),
   Shape("mutation", "initializeJsx", "counterState", "set"),
   Shape("forwardCall", "component", "sharedAtom", "applyBody"),
   Shape("forwardCall", "component", "counterState", "applyBody"),
   Shape("forwardJsx", "component", "sharedAtom", "Switch"),
   Shape("wrapper", "component", "counterState", "usePing"),
   Shape("memberMutation", "component", "counterState", "set"),
   Shape("forwardShadow", "component", "sharedAtom", "setCount"),
   Shape("forwardShadow", "component", "sharedAtom", "emitChange")}

\* The nodes of one kind of file f, in document order: file 1 holds the
\* library, the wrapper hooks, component A, component B when fb = 1, and the
\* end of the file; file fb holds component B.
FilePart(lib, A, B, fb, f, field) ==
  (IF f = 1 THEN lib[field] \o WrapperHooks[field] \o A[field] ELSE <<>>)
    \o (IF f = fb THEN B[field] ELSE <<>>)
    \o (IF f = 1 THEN LibraryTail[field] \o CyclicHooks[field] ELSE <<>>)

\* The function-like nodes by key.
FuncsByKey(funcs) ==
  [k \in {GetFunctionLikeNodeKey(funcs[i]) : i \in 1..Len(funcs)} |->
     LastWith(funcs, LAMBDA fn : GetFunctionLikeNodeKey(fn) = k)]

\* The source files of a project made of the three fragments.
Assemble(lib, A, B, fb) ==
  [decls |-> [f \in Files |-> FilePart(lib, A, B, fb, f, "decls")],
   calls |-> [f \in Files |-> FilePart(lib, A, B, fb, f, "calls")],
   jsx |-> [f \in Files |-> FilePart(lib, A, B, fb, f, "jsx")],
   imports |-> [f \in Files |-> StandardImports],
   funcs |-> FuncsByKey(lib.funcs \o WrapperHooks.funcs \o A.funcs \o B.funcs
                          \o LibraryTail.funcs \o CyclicHooks.funcs)]

\* The project made of the library, component Consumer (line 20 of file 1),
\* component Panel (line 30 of file fb) and the end of file 1.
Project(style, tgt, dflt, a, b, fb) ==
  Assemble(Library(style, tgt, dflt),
           Consumer(a, 1, 20, "Consumer", "setCount"),
           Consumer(b, fb, 30, "Panel", "setOther"), fb)

\* The projects analysed: every selector shape with few consumers, and every
\* pair of consumers over the plain library.
Projects ==
  {Project(style, tgt, dflt, a, Shape("none", "component", "counterState", ""), 1) :
     style \in SelectorStyles, tgt \in Targets, dflt \in Defaults,
     a \in {Shape("none", "component", "counterState", ""),
            Shape("read", "component", "counterState", ""),
            Shape("read", "component", "migratedState", ""),
            Shape("storeSet", "component", "sharedAtom", "")}}
    \cup {Project("destructured", "counterState", "value", a, b, fb) :
            a \in ShapesA, b \in ShapesB, fb \in Files}
    \cup {Project(style, tgt, dflt, Shape("read", "component", "counterState", ""),
                   Shape("twinAtom", "component", "counterState", n), 2) :
            style \in {"destructured", "handle"}, tgt \in {"counterState", "sharedAtom"},
            dflt \in {"value", "reference"}, n \in {"sourceSelector", "mirrorState"}}

(***************************************************************************)
(* The analyzer run: createAnalyzerContext, then the rules of runAudit.    *)
(***************************************************************************)
NoIndex ==
  [states |-> <<>>, stateById |-> EmptyMap, initCallByStateId |-> EmptyMap,
   stateByDeclarationKey |-> EmptyMap, importMapByFilePath |-> EmptyMap]

\* The orders in which the file system may present the files of a project.
PresentationOrders == {p \in [1..NumFiles -> Files] : Range(p) = Files}

\* loadProject: the source files, sorted by path.
LoadProject(presented) == StableSort(presented, LAMBDA l, r : l < r)

\* No impact query is running.
ImpactIdle ==
  /\ impactEdges = <<>>
  /\ impactTargetStateId = NoState
  /\ maxDepth = 0
  /\ reverseDependencyMap = EmptyMap
  /\ queue = <<>>
  /\ visitedDepth = <<>>
  /\ transitiveDependents = <<>>
  /\ ipc = "idle"

\* No command line is being read.
CliIdle ==
  /\ argv = <<>>
  /\ parsedArgs = <<>>
  /\ config = <<>>
  /\ cpc = "idle"

\* No fixture is being compared.
FixtureIdle ==
  /\ actualOutput = <<>>
  /\ expectedOutput = <<>>
  /\ fixtureOk = FALSE
  /\ fpc = "idle"

\* No analysis is running.
AnalyzerIdle ==
  /\ project = <<>>
  /\ profile = "core"
  /\ sourceFiles = <<>>
  /\ pc = "idle"
  /\ index = NoIndex
  /\ setterBindings = EmptyMap
  /\ jotaiStoreSymbolKeys = {}
  /\ usageEvents = <<>>
  /\ dependencyEdges = <<>>
  /\ violations = <<>>

Init ==
  /\ project \in Projects
  /\ profile \in Profiles
  /\ \E presented \in PresentationOrders : sourceFiles = LoadProject(presented)
  /\ pc = "loaded"
  /\ index = NoIndex
  /\ setterBindings = EmptyMap
  /\ jotaiStoreSymbolKeys = {}
  /\ usageEvents = <<>>
  /\ dependencyEdges = <<>>
  /\ violations = <<>>
  /\ ImpactIdle
  /\ CliIdle
  /\ FixtureIdle

\* createAnalyzerContext on a given file order: index, then events.
Analyze(files, proj, prof) ==
  BuildUsageEvents(files, proj, BuildSymbolIndex(files, proj), GetCapabilityFlags(prof))

\* const symbolIndex = buildSymbolIndex(sourceFiles)
BuildSymbolIndexStep ==
  /\ pc = "loaded"
  /\ index' = BuildSymbolIndex(sourceFiles, project)
  /\ pc' = "indexed"
  /\ UNCHANGED <<project, profile, sourceFiles, setterBindings, jotaiStoreSymbolKeys,
                 usageEvents, dependencyEdges, violations>>
  /\ UNCHANGED <<impactVars, cliVars, fixtureVars>>

\* const eventResult = buildUsageEvents(sourceFiles, symbolIndex, config)
BuildUsageEventsStep ==
  /\ pc = "indexed"
  /\ \E result \in {BuildUsageEvents(sourceFiles, project, index,
                                       GetCapabilityFlags(profile))} :
       /\ usageEvents' = result.usageEvents
       /\ dependencyEdges' = result.dependencyEdges
       /\ setterBindings' = result.setterBindings
       /\ jotaiStoreSymbolKeys' = result.jotaiStoreSymbolKeys
  /\ pc' = "extracted"
  /\ UNCHANGED <<project, profile, sourceFiles, index, violations>>
  /\ UNCHANGED <<impactVars, cliVars, fixtureVars>>

\* runAudit: the four rules over the context, then sortViolations.
RunAuditStep ==
  /\ pc = "extracted"
  /\ violations' = EvaluateRules(
       [states |-> index.states, stateById |-> index.stateById,
        usageEvents |-> usageEvents, dependencyEdges |-> dependencyEdges,
        referencesByStateId |-> BuildReferenceIndex(project, index)])
  /\ pc' = "audited"
  /\ UNCHANGED <<project, profile, sourceFiles, index, setterBindings,
                 jotaiStoreSymbolKeys, usageEvents, dependencyEdges>>
  /\ UNCHANGED <<impactVars, cliVars, fixtureVars>>

Next == BuildSymbolIndexStep \/ BuildUsageEventsStep \/ RunAuditStep

Spec == Init /\ [][Next]_vars

(***************************************************************************)
(* Properties                                                              *)
(***************************************************************************)
Extracted == pc \in {"extracted", "audited"}

\* The analysis of the project on the given file order gives the events and
\* edges of the current state.
SameOutput(files) ==
  LET r == Analyze(files, project, profile)
  IN r.usageEvents = usageEvents /\ r.dependencyEdges = dependencyEdges

\* C1 as stated: indexing plus buildUsageEvents gives the same usageEvents and
\* the same dependencyEdges, in the same order, for every order of the same
\* source files, under every capability profile.
C1_OrderIndependent ==
  Extracted => \A files \in PresentationOrders : SameOutput(files)

\* C1 amended: whatever order the files are presented in, the analysis of the
\* files as loadProject sorts them gives the same events and edges; and under
\* the core profile indexing plus buildUsageEvents gives them for every order
\* of the files, sorted or not.
C1_OrderIndependentWhenSortedOrCore ==
  Extracted =>
    \A files \in PresentationOrders :
      /\ SameOutput(LoadProject(files))
      /\ profile = "core" => SameOutput(files)

\* A core-profile analysis whose events come from more than one file.
C1_Witness ==
  /\ Extracted /\ profile = "core"
  /\ \E i, j \in 1..Len(usageEvents) : usageEvents[i].filePath # usageEvents[j].filePath

\* The name a function-like node carries itself: a declaration's or method's
\* name, a function expression's own name, else the name of the variable it
\* directly initializes ("" when it has none).
OwnName(chain, i) ==
  IF chain[i].kind \in {"FunctionDeclaration", "MethodDeclaration"} THEN chain[i].name
  ELSE IF chain[i].kind = "FunctionExpression" /\ chain[i].name # "" THEN chain[i].name
  ELSE IF i < Len(chain) /\ chain[i + 1].kind = "VariableDeclaration"
    THEN chain[i + 1].name
  ELSE ""

\* The init context of the write classification: walking up the parents one
\* meets (a) a JSX attribute named initializeState, (b) a property assignment
\* named initializeState, or (c) a function-like node whose own name begins
\* with "initialize".
InInitContext(chain) ==
  \E i \in 1..Len(chain) :
    \/ chain[i].kind = "JsxAttribute" /\ chain[i].name = "initializeState"
    \/ chain[i].kind = "PropertyAssignment" /\ chain[i].name = "initializeState"
    \/ IsFunctionLikeNode(chain[i]) /\ StartsWithInitialize(OwnName(chain, i))

\* The ancestors of the call or JSX attribute value an event was emitted for.
SiteChain(e) ==
  LET calls == {c \in Range(project.calls[e.filePath]) :
                  c.line = e.line /\ c.column = e.column}
      attrs == {a \in Range(project.jsx[e.filePath]) :
                  a.line = e.line /\ a.column = e.column}
  IN IF calls # {} THEN (CHOOSE c \in calls : TRUE).anc
     ELSE (CHOOSE a \in attrs : TRUE).anc

IsWrite(e) == e.type \in {"initWrite", "runtimeWrite"}

\* C2: a write event has type initWrite if and only if its site lies in an
\* init context (initializeState JSX attribute, initializeState property
\* assignment, or enclosing function-like node whose own name begins with
\* "initialize"); every other write event has type runtimeWrite.
C2_InitWriteIffInitContext ==
  \A i \in 1..Len(usageEvents) :
    IsWrite(usageEvents[i]) =>
      (usageEvents[i].type = "initWrite" <=> InInitContext(SiteChain(usageEvents[i])))

\* R004 reports the state.
ReportedByR004(s) ==
  \E i \in 1..Len(violations) :
    /\ violations[i].rule = "R004"
    /\ violations[i].state = s.name
    /\ violations[i].file = s.filePath
    /\ violations[i].line = s.line

HasEvent(stateId, type, phase) ==
  \E i \in 1..Len(usageEvents) :
    /\ usageEvents[i].stateId = stateId
    /\ usageEvents[i].type = type
    /\ usageEvents[i].phase = phase

\* C3: R004 reports a state if and only if it is a plain Recoil atom with at
\* least one runtime read event and no runtimeWrite event; initWrite events
\* and dependency-phase reads do not change the verdict.
C3_R004Iff ==
  pc = "audited" =>
    \A i \in 1..Len(index.states) :
      LET s == index.states[i]
      IN ReportedByR004(s) <=>
           /\ s.store = "recoil" /\ s.kind = "atom" /\ s.isRecoilPlainAtom
           /\ HasEvent(s.id, "read", "runtime")
           /\ ~HasEvent(s.id, "runtimeWrite", "runtime")

\* R004 reports an atom that also has an init write and a dependency read.
C3_Witness ==
  /\ pc = "audited"
  /\ \E i \in 1..Len(index.states) :
       /\ ReportedByR004(index.states[i])
       /\ HasEvent(index.states[i].id, "initWrite", "runtime")
       /\ HasEvent(index.states[i].id, "read", "dependency")


\* The base (pre-forwarding) setter bindings of the current project.
BaseSetterBindings ==
  SharedBindings(sourceFiles, project, index,
                 GetCapabilityFlags(profile)).directSetterBindings

\* The bindings one forwarding site (a call or a JSX attribute) makes on its
\* own when its sources are looked up in the map `base`.
OneHopFrom(base) ==
  {ForwardCallArguments(c, project, base, EmptyMap) :
     c \in UNION {Range(project.calls[f]) : f \in Files}}
  \cup {ForwardJsxAttribute(a, project, base, EmptyMap) :
          a \in UNION {Range(project.jsx[f]) : f \in Files}}

\* C4: forwarding is exactly one hop: every binding of the final setter
\* bindings is either a binding of the base (pre-forwarding) map or is what
\* one call argument or JSX prop binds when its source identifier is resolved
\* in the base map; an identifier bound only by forwarding is never a source.
C4_ForwardingOneHop ==
  Extracted =>
    LET base == BaseSetterBindings
    IN \A k \in DOMAIN setterBindings :
         \/ k \in DOMAIN base /\ base[k] = setterBindings[k]
         \/ \E m \in OneHopFrom(base) : k \in DOMAIN m /\ m[k] = setterBindings[k]

\* An identifier bound only by forwarding is passed on as a call argument and
\* the receiving parameter of every target function stays unbound.
C4_Witness ==
  /\ Extracted /\ profile = "press-release"
  /\ \E f \in Files : \E c \in Range(project.calls[f]) : \E i \in 1..Len(c.args) :
       /\ c.args[i].kind = "ident"
       /\ ResolveStateIdFromIdentifier(c.args[i].id, f, setterBindings) # NoState
       /\ ResolveStateIdFromIdentifier(c.args[i].id, f, BaseSetterBindings) = NoState
       /\ LET targets == ResolveFunctionLikeNodesFromExpression(c.calleeKind, c.callee)
          IN /\ targets # <<>>
             /\ \A t \in Range(targets) :
                  LET fn == project.funcs[t]
                  IN /\ i <= Len(fn.params) /\ fn.params[i].nameKind = "ident"
                     /\ ResolveStateIdFromIdentifier(fn.params[i].name, fn.file,
                                                     setterBindings) = NoState

\* C5: every event of usageEvents has a stateId that is the id of a state in
\* the symbol index, whichever way the event was produced (direct setter
\* bindings, wrapper-resolved bindings, forwarded bindings, callbacks, handle
\* calls).
C5_StateIdInIndex ==
  Extracted =>
    \A i \in 1..Len(usageEvents) : usageEvents[i].stateId \in DOMAIN index.stateById

\* The call an event was emitted for.
SiteCalls(e) ==
  {c \in Range(project.calls[e.filePath]) : c.line = e.line /\ c.column = e.column}

\* The output holds a setter-call write through a forwarded binding: the
\* callee resolves in the final bindings and not in the base bindings.
C5_Witness ==
  /\ Extracted
  /\ \E i \in 1..Len(usageEvents) :
       /\ usageEvents[i].via = "hook-setter-call"
       /\ usageEvents[i].stateId \in DOMAIN index.stateById
       /\ \E c \in SiteCalls(usageEvents[i]) :
            /\ c.calleeKind = "ident"
            /\ ResolveStateIdFromIdentifier(c.callee, c.file, BaseSetterBindings) = NoState

\* C6: after the dedup step no two events of usageEvents agree on the whole
\* tuple (type, phase, stateId, actorType, actorName, filePath, line, column,
\* via) and no two edges of dependencyEdges agree on (fromStateId, toStateId,
\* filePath, line, column, via).
C6_NoDuplicates ==
  /\ \A i, j \in 1..Len(usageEvents) :
       i # j =>
         <<usageEvents[i].type, usageEvents[i].phase, usageEvents[i].stateId,
           usageEvents[i].actorType, usageEvents[i].actorName, usageEvents[i].filePath,
           usageEvents[i].line, usageEvents[i].column, usageEvents[i].via>>
         # <<usageEvents[j].type, usageEvents[j].phase, usageEvents[j].stateId,
             usageEvents[j].actorType, usageEvents[j].actorName, usageEvents[j].filePath,
             usageEvents[j].line, usageEvents[j].column, usageEvents[j].via>>
  /\ \A i, j \in 1..Len(dependencyEdges) :
       i # j =>
         <<dependencyEdges[i].fromStateId, dependencyEdges[i].toStateId,
           dependencyEdges[i].filePath, dependencyEdges[i].line,
           dependencyEdges[i].column, dependencyEdges[i].via>>
         # <<dependencyEdges[j].fromStateId, dependencyEdges[j].toStateId,
             dependencyEdges[j].filePath, dependencyEdges[j].line,
             dependencyEdges[j].column, dependencyEdges[j].via>>

\* What the extractors pushed for the current project, before the dedup.
Raw ==
  RawExtraction(sourceFiles, project, index, GetCapabilityFlags(profile),
                SharedBindings(sourceFiles, project, index, GetCapabilityFlags(profile)))

\* The extractors emitted duplicate events and duplicate edges.
C6_Witness ==
  /\ Extracted
  /\ Len(Raw.usageEvents) > Len(usageEvents)
  /\ Len(Raw.dependencyEdges) > Len(dependencyEdges)


\* The lexicographic order on (filePath, line, column, type, stateId), with
\* type and stateId compared as strings.
TupleLess(l, r) ==
  IF l.filePath # r.filePath THEN l.filePath < r.filePath
  ELSE IF l.line # r.line THEN l.line < r.line
  ELSE IF l.column # r.column THEN l.column < r.column
  ELSE IF l.type # r.type THEN TypeRank(l.type) < TypeRank(r.type)
  ELSE StateIdLess(l.stateId, r.stateId)

TupleTie(l, r) ==
  <<l.filePath, l.line, l.column, l.type, l.stateId>>
    = <<r.filePath, r.line, r.column, r.type, r.stateId>>

\* C7 as stated: in usageEvents every event is strictly greater than its
\* predecessor under the lexicographic order on (filePath, line, column,
\* type, stateId); no two output events tie on that 5-tuple.
C7_StrictlyIncreasing ==
  \A i \in 1..Len(usageEvents) - 1 : TupleLess(usageEvents[i], usageEvents[i + 1])

\* C7 amended: in usageEvents no event is smaller than its predecessor under
\* the lexicographic order on (filePath, line, column, type, stateId); two
\* output events may tie on the 5-tuple, and then they differ in phase,
\* actorType, actorName or via.
C7_NonDecreasing ==
  \A i \in 1..Len(usageEvents) - 1 :
    /\ ~TupleLess(usageEvents[i + 1], usageEvents[i])
    /\ TupleTie(usageEvents[i], usageEvents[i + 1]) =>
         <<usageEvents[i].phase, usageEvents[i].actorType,
           usageEvents[i].actorName, usageEvents[i].via>>
         # <<usageEvents[i + 1].phase, usageEvents[i + 1].actorType,
             usageEvents[i + 1].actorName, usageEvents[i + 1].via>>

\* Two neighbours of the output tie on the 5-tuple, and the extractors pushed
\* some later event before an earlier one.
C7_Witness ==
  /\ Extracted
  /\ \E i \in 1..Len(usageEvents) - 1 : TupleTie(usageEvents[i], usageEvents[i + 1])
  /\ \E i \in 1..Len(Raw.usageEvents) - 1 :
       TupleLess(Raw.usageEvents[i + 1], Raw.usageEvents[i])

\* C8: every event with phase dependency has type read, actorType state and a
\* non-empty actorStateId; every event with phase runtime has actorType
\* function and no actorStateId.
C8_PhaseShape ==
  \A i \in 1..Len(usageEvents) :
    LET e == usageEvents[i]
    IN /\ e.phase \in {"dependency", "runtime"}
       /\ e.phase = "dependency" =>
            /\ e.type = "read" /\ e.actorType = "state"
            /\ e.actorStateId # NoState /\ e.actorStateId[2] # ""
       /\ e.phase = "runtime" =>
            e.actorType = "function" /\ e.actorStateId = NoState

\* The output holds a dependency read, a runtime read and a runtime-phase
\* write.
C8_Witness ==
  /\ Extracted
  /\ \E i, j, k \in 1..Len(usageEvents) :
       /\ usageEvents[i].phase = "dependency"
       /\ usageEvents[j].phase = "runtime" /\ usageEvents[j].type = "read"
       /\ usageEvents[k].phase = "runtime" /\ IsWrite(usageEvents[k])

\* A dependency-phase read event at the edge's location.
DependencyEventAt(edge, via) ==
  \E i \in 1..Len(usageEvents) :
    /\ usageEvents[i].phase = "dependency" /\ usageEvents[i].type = "read"
    /\ usageEvents[i].filePath = edge.filePath
    /\ usageEvents[i].line = edge.line
    /\ usageEvents[i].column = edge.column
    /\ usageEvents[i].via = via

IsHandleRead(edge) ==
  \E c \in Range(project.calls[edge.filePath]) :
    /\ c.line = edge.line /\ c.column = edge.column
    /\ IsJotaiStoreGetCall(c, jotaiStoreSymbolKeys)

C10_EventHasEdge ==
  \A i \in 1..Len(usageEvents) :
    usageEvents[i].phase = "dependency" =>
      \E j \in 1..Len(dependencyEdges) :
        /\ dependencyEdges[j].fromStateId = usageEvents[i].actorStateId
        /\ dependencyEdges[j].toStateId = usageEvents[i].stateId
        /\ dependencyEdges[j].filePath = usageEvents[i].filePath
        /\ dependencyEdges[j].line = usageEvents[i].line
        /\ dependencyEdges[j].column = usageEvents[i].column

\* Two owners read the same state at the same site, and the extractors
\* pushed a duplicate that the dedup removed.
C10_Witness ==
  /\ Extracted
  /\ Len(Raw.usageEvents) > Len(usageEvents)
  /\ \E i, j \in 1..Len(usageEvents) :
       /\ usageEvents[i].phase = "dependency" /\ usageEvents[j].phase = "dependency"
       /\ usageEvents[i].actorStateId # usageEvents[j].actorStateId
       /\ usageEvents[i].stateId = usageEvents[j].stateId
       /\ <<usageEvents[i].filePath, usageEvents[i].line, usageEvents[i].column>>
            = <<usageEvents[j].filePath, usageEvents[j].line, usageEvents[j].column>>

\* The identifiers a parameter's binding name binds
\* (collectIdentifiersFromBindingName applied to the parameter's name node).
ParameterNames(param) ==
  IF param.nameKind = "ident" THEN <<param.name>>
  ELSE Concat([i \in 1..Len(param.elements) |->
                 CollectIdentifiersFromBindingName(param.elements[i])])

\* C11: function-argument forwarding binds destructured parameters: when a
\* call passes, at position i, a bare identifier directly bound to state S
\* and the callee resolves to a function whose i-th parameter is a
\* destructuring pattern, every name bound by that pattern is bound to S in
\* the forwarded map.
C11_ForwardingBindsPatternParameters ==
  (Extracted /\ profile = "press-release") =>
    \A f \in Files : \A c \in Range(project.calls[f]) : \A i \in 1..Len(c.args) :
      LET stateId == IF c.args[i].kind = "ident"
                       THEN ResolveStateIdFromIdentifier(c.args[i].id, f,
                                                         BaseSetterBindings)
                       ELSE NoState
          targets == ResolveFunctionLikeNodesFromExpression(c.calleeKind, c.callee)
      IN stateId # NoState =>
           \A t \in Range(targets) :
             LET fn == project.funcs[t]
             IN (i <= Len(fn.params) /\ fn.params[i].nameKind = "object") =>
                  \A localId \in Range(ParameterNames(fn.params[i])) :
                    ResolveStateIdFromIdentifier(localId, fn.file, setterBindings)
                      = stateId

\* The call-initialised declarations buildSetterBindings visits, in order.
VisitedDeclarations == CallInitializedDeclarations(sourceFiles, project)

\* hookBindingCache, resolvingHookKeys and the bindings after the first n
\* declarations of buildSetterBindings.
ResolutionAfter(n) ==
  ResolveDeclarations(SubSeq(VisitedDeclarations, 1, n), project, index)

\* The function-like nodes a call's callee resolves to.
CalleeFunctions(c) == Range(ResolveFunctionLikeNodesFromExpression(c.calleeKind, c.callee))

ProjectCalls == UNION {Range(project.calls[f]) : f \in Files}

\* The function is called from inside its own body.
CallsItself(key) ==
  \E c \in ProjectCalls :
    /\ key \in CalleeFunctions(c)
    /\ \E i \in 1..Len(c.anc) :
         IsFunctionLikeNode(c.anc[i]) /\ <<c.file, c.anc[i].line, c.anc[i].column>> = key

\* C12: wrapper resolution never loops: for wrappers that call each other
\* cyclically or themselves, every top-level
\* resolveHookWriteBindingFromCallExpression of buildSetterBindings returns
\* (a binding or none), leaves the currently-resolving set empty, and a call
\* whose only target function is in the currently-resolving set (and not in
\* the cache) yields no binding and changes neither the cache nor the set.
C12_WrapperResolutionTerminates ==
  Extracted =>
    /\ \A n \in 0..Len(VisitedDeclarations) :
         /\ ResolutionAfter(n).resolvingKeys = {}
         /\ \A k \in DOMAIN ResolutionAfter(n).cache :
              ResolutionAfter(n).cache[k].kind \in {"none", "setter", "tuple", "object"}
    /\ \A c \in ProjectCalls : \A k \in CalleeFunctions(c) :
         \A cache \in {EmptyMap, ResolutionAfter(0).cache} :
           ResolveFromFunctionNodes(<<k>>, project, index, cache, {k})
             = [binding |-> NoBinding, cache |-> cache, resolvingKeys |-> {k}]

\* One declaration is initialised by a call of the self-recursive hook and
\* one by a call of a hook of the two-hook cycle; both were analysed: the
\* self-recursive hook is cached without a binding and the hooks of the cycle
\* with the setter binding of the one return that leaves the cycle.
C12_Witness ==
  /\ Extracted /\ profile = "press-release"
  /\ \E d \in Range(VisitedDeclarations) :
       \E k \in CalleeFunctions(d.init) :
         /\ CallsItself(k)
         /\ k \in DOMAIN ResolutionAfter(Len(VisitedDeclarations)).cache
         /\ ResolutionAfter(Len(VisitedDeclarations)).cache[k].kind = "none"
  /\ \E d \in Range(VisitedDeclarations) :
       \E k \in CalleeFunctions(d.init) :
         /\ ~CallsItself(k)
         /\ \E c \in ProjectCalls : \E j \in CalleeFunctions(c) :
              /\ j # k
              /\ \E i \in 1..Len(c.anc) :
                   /\ IsFunctionLikeNode(c.anc[i])
                   /\ <<c.file, c.anc[i].line, c.anc[i].column>> = k
              /\ \E c2 \in ProjectCalls :
                   /\ k \in CalleeFunctions(c2)
                   /\ \E i \in 1..Len(c2.anc) :
                        /\ IsFunctionLikeNode(c2.anc[i])
                        /\ <<c2.file, c2.anc[i].line, c2.anc[i].column>> = j
         /\ k \in DOMAIN ResolutionAfter(Len(VisitedDeclarations)).cache
         /\ ResolutionAfter(Len(VisitedDeclarations)).cache[k].kind = "setter"
  /\ ResolutionAfter(Len(VisitedDeclarations)).resolvingKeys = {}

\* The calls inside the callback passed to a useAtomCallback(...) call of file
\* f whose callee is the callback's set-name and whose first argument
\* resolves to a state.
AtomCallbackSetCalls(f) ==
  UNION {LET factory == ResolveCallbackFactoryFunction(project, c.args, project.imports[f])
         IN IF \/ ResolveCalledFactory(c, project.imports[f])
                    # [module |-> "jotai/utils", imported |-> "useAtomCallback"]
               \/ factory = NoKey
              THEN {}
              ELSE {inner \in Range(CallsWithin(project, factory)) :
                      /\ inner.calleeKind = "ident"
                      /\ inner.callee.text
                           = ParseJotaiAtomCallbackBindings(project, factory).setName
                      /\ ResolveStateFromExpression(inner.args, index) # NoState} :
         c \in Range(project.calls[f])}

EventsAt(c) ==
  {e \in Range(usageEvents) :
     e.filePath = c.file /\ e.line = c.line /\ e.column = c.column}

\* C13: writes found in a useAtomCallback((get, set) => ...) callback are
\* always runtimeWrite: a call of the bound set-name inside the callback body
\* whose first argument resolves to a state produces a runtimeWrite event and
\* never an initWrite event, wherever the callback appears.
C13_AtomCallbackWritesAreRuntime ==
  (Extracted /\ profile = "press-release") =>
    \A f \in Files : \A c \in AtomCallbackSetCalls(f) :
      /\ \E e \in EventsAt(c) : e.type = "runtimeWrite"
      /\ \A e \in EventsAt(c) : e.type # "initWrite"

\* The calls h.<member>(S, ...) of the project on a variable h initialised
\* from createStore() with a first argument that resolves to a state; the
\* handles are found as buildJotaiStoreSymbolKeys finds them, whatever the
\* capabilities are.
HandleCalls(member) ==
  {c \in ProjectCalls :
     /\ c.calleeKind = "member" /\ c.callee.text = member /\ c.baseKind = "ident"
     /\ IsKnownJotaiStoreIdentifier(c.base, c.file,
          BuildJotaiStoreSymbolKeys(sourceFiles, project, index))
     /\ ResolveStateFromExpression(c.args, index) # NoState}

EdgesAt(c) ==
  {d \in Range(dependencyEdges) :
     d.filePath = c.file /\ d.line = c.line /\ d.column = c.column}

HandleVias == {"jotai:store.set", "initializeState:jotai:store.set", "jotai:store.get"}

\* C14 as stated: with the store API capability off (the core profile), a call h.set(S, v) or
\* h.get(S) on a store handle h produces no usage event and no dependency
\* edge.
C14_HandleCallsSilentWhenOff ==
  (Extracted /\ profile = "core") =>
    \A c \in HandleCalls("set") \cup HandleCalls("get") :
      EventsAt(c) = {} /\ EdgesAt(c) = {}

\* C14, amended: with the store API capability off, h.get(S) on a store
\* handle h produces no usage event and no dependency edge and no event
\* carries a handle via, while h.set(S, v) is still reported, by the
\* direct-mutation extractor, as one write via set-call or
\* initializeState:set; events with a handle via appear only when the
\* capability is on.
C14_HandleViasOnlyWhenOn ==
  Extracted =>
    /\ (\E e \in Range(usageEvents) : e.via \in HandleVias)
         => profile = "press-release"
    /\ (profile = "core") =>
         /\ \A c \in HandleCalls("get") : EventsAt(c) = {} /\ EdgesAt(c) = {}
         /\ \A c \in HandleCalls("set") :
              /\ EdgesAt(c) = {}
              /\ Cardinality(EventsAt(c)) = 1
              /\ \A e \in EventsAt(c) :
                   /\ e.via \in {"set-call", "initializeState:set"}
                   /\ e.type \in {"runtimeWrite", "initWrite"}

\* The capability is off, a selector reads a state through the handle and a
\* component writes one through it: the read leaves nothing and the write is
\* reported via set-call.
C14_Witness ==
  /\ Extracted /\ profile = "core"
  /\ \E c \in HandleCalls("get") : EventsAt(c) = {} /\ EdgesAt(c) = {}
  /\ \E c \in HandleCalls("set") : \E e \in EventsAt(c) : e.via = "set-call"

\* The calls <base>.set(S, ...), <base>.reset(S) or set(S, ...), reset(S) of
\* the project that are not a set on a known store handle.
MutationCallsOffHandle ==
  {c \in ProjectCalls :
     /\ ResolveMutationKind(c) # ""
     /\ ResolveStateFromExpression(c.args, index) # NoState
     /\ c \notin HandleCalls("set")}

\* C15: with the store API capability on, a call h.set(S, v) on a known
\* store handle h with S a known state produces exactly one write event at
\* the call site, the handle one (via jotai:store.set, or
\* initializeState:jotai:store.set in an init context), and the
\* direct-mutation extractor emits nothing for it; a set or reset call on any
\* other base (or on none) with a state argument gets the direct-mutation
\* extractor's event (via set-call or reset-call or their init variants).
C15_HandleSetIsTheOnlyWrite ==
  (Extracted /\ profile = "press-release") =>
    /\ \A c \in HandleCalls("set") :
         /\ Cardinality(EventsAt(c)) = 1
         /\ \A e \in EventsAt(c) :
              /\ e.type \in {"runtimeWrite", "initWrite"}
              /\ e.stateId = ResolveStateFromExpression(c.args, index)
              /\ e.via = IF e.type = "initWrite" THEN "initializeState:jotai:store.set"
                         ELSE "jotai:store.set"
         /\ ClassifyDirectMutationWrite(c, jotaiStoreSymbolKeys, index) = <<>>
    /\ \A c \in MutationCallsOffHandle :
         /\ Len(ClassifyDirectMutationWrite(c, jotaiStoreSymbolKeys, index)) = 1
         /\ \E e \in EventsAt(c) :
              /\ e = ClassifyDirectMutationWrite(c, jotaiStoreSymbolKeys, index)[1]
              /\ e.via \in {GetMutationVias(ResolveMutationKind(c))[1],
                            GetMutationVias(ResolveMutationKind(c))[2]}

\* One component calls store.set(sharedAtom, 1) on the handle and the only
\* event at the call is the handle write; another calls ctx.set(S, 1) on a
\* base that is no handle and the direct-mutation extractor reports it.
C15_Witness ==
  /\ Extracted /\ profile = "press-release"
  /\ \E c \in HandleCalls("set") :
       \E e \in EventsAt(c) : e.via = "jotai:store.set" /\ EventsAt(c) = {e}
  /\ \E c \in MutationCallsOffHandle :
       c.calleeKind = "member" /\ \E e \in EventsAt(c) : e.via = "set-call"


\* The function-like nodes called from inside function k.
CalledFrom(k) ==
  UNION {CalleeFunctions(c) :
           c \in {x \in ProjectCalls :
                    \E i \in 1..Len(x.anc) :
                      /\ IsFunctionLikeNode(x.anc[i])
                      /\ <<x.file, x.anc[i].line, x.anc[i].column>> = k}}

RECURSIVE ReachableFrom(_, _)
\* The functions reached from those of K in at most n calls.
ReachableFrom(K, n) ==
  IF n = 0 THEN K
  ELSE ReachableFrom(K \cup UNION {CalledFrom(k) : k \in K}, n - 1)

\* No chain of calls that starts in function k comes back to a function it
\* went through.
IsAcyclicWrapper(k) ==
  \A j \in ReachableFrom({k}, Cardinality(DOMAIN project.funcs)) :
    j \notin ReachableFrom(CalledFrom(j), Cardinality(DOMAIN project.funcs))

\* The first binding of a sequence that is one.
FirstBinding(bs) ==
  IF \A i \in 1..Len(bs) : bs[i].kind = "none" THEN NoBinding
  ELSE bs[CHOOSE i \in 1..Len(bs) :
            /\ bs[i].kind # "none"
            /\ \A j \in 1..(i - 1) : bs[j].kind = "none"]

\* The call-initialised declarations of function k's own scope.
OwnHookDeclarations(k) ==
  SelectSeq(project.decls[k[1]], LAMBDA d : IsInFunctionOwnScope(d, k) /\ d.hasCallInit)

RECURSIVE ReturnedBinding(_)
RECURSIVE InitializerBinding(_)
RECURSIVE LocalValueBinding(_, _)
RECURSIVE LocalSetterState(_, _)
RECURSIVE ExpressionBinding(_, _)

\* What a hook call gives its caller: the binding of a setter or tuple hook
\* of the libraries, else what the first of the called functions that
\* returns one returns.
InitializerBinding(call) ==
  IF ResolveDirectHookWriteBinding(call, index).kind # "none"
    THEN ResolveDirectHookWriteBinding(call, index)
    ELSE FirstBinding([i \in 1..Len(ResolveFunctionLikeNodesFromExpression(
                                      call.calleeKind, call.callee)) |->
                         ReturnedBinding(ResolveFunctionLikeNodesFromExpression(
                                           call.calleeKind, call.callee)[i])])

\* The binding held by the local variable `name` of function k: that of the
\* last declaration `const name = hook(...)` whose initializer gives one.
LocalValueBinding(k, name) ==
  LET ds == OwnHookDeclarations(k)
      I == {i \in 1..Len(ds) :
              /\ ds[i].nameKind = "ident"
              /\ ds[i].name.text = name
              /\ InitializerBinding(ds[i].init).kind # "none"}
  IN IF I = {} THEN NoBinding
     ELSE InitializerBinding(ds[CHOOSE i \in I : \A j \in I : j <= i].init)

\* The state the local name of function k sets: the name of a declaration
\* initialised by a setter, the second element of a pattern initialised by a
\* tuple, or a name destructured from a property of an object of setters.
LocalSetterState(k, name) ==
  LET ds == OwnHookDeclarations(k)
      stateAt(i) ==
        LET b == InitializerBinding(ds[i].init)
        IN IF ds[i].nameKind = "ident"
             THEN IF b.kind = "setter" /\ ds[i].name.text = name
                    THEN b.stateId ELSE NoState
           ELSE IF ds[i].nameKind = "array"
             THEN IF /\ b.kind = "tuple"
                     /\ Len(ds[i].elements) >= 2
                     /\ ds[i].elements[2].nameKind = "ident"
                     /\ ds[i].elements[2].name.text = name
                    THEN b.stateId ELSE NoState
           ELSE IF b.kind = "object"
                   /\ \E e \in Range(ds[i].elements) :
                        /\ e.prop \in DOMAIN b.props
                        /\ \E id \in Range(CollectIdentifiersFromBindingName(e)) :
                             id.text = name
             THEN b.props[(CHOOSE e \in Range(ds[i].elements) :
                             /\ e.prop \in DOMAIN b.props
                             /\ \E id \in Range(CollectIdentifiersFromBindingName(e)) :
                                  id.text = name).prop]
           ELSE NoState
      I == {i \in 1..Len(ds) : stateAt(i) # NoState}
  IN IF I = {} THEN NoState ELSE stateAt(CHOOSE i \in I : \A j \in I : j <= i)

\* What a return expression of function k resolves to: a call to what the
\* call gives, a bare identifier to the binding the local variable holds, an
\* object literal to the object of its properties `p: name` or `{ name }`
\* whose name is a local setter.
ExpressionBinding(k, e) ==
  IF e.kind = "call" THEN InitializerBinding(e.call)
  ELSE IF e.kind = "ident" THEN LocalValueBinding(k, e.id.text)
  ELSE IF e.kind = "object"
    THEN LET named(p) == IF p.propKind = "ShorthandPropertyAssignment" THEN p.name
                         ELSE IF p.propKind = "PropertyAssignment" /\ p.value.kind = "ident"
                           THEN p.value.id.text
                         ELSE ""
             bound == {p \in Range(e.props) :
                         named(p) # "" /\ LocalSetterState(k, named(p)) # NoState}
         IN IF bound = {} THEN NoBinding
            ELSE ObjectBinding([n \in {p.name : p \in bound} |->
                   LocalSetterState(k, named(CHOOSE p \in bound : p.name = n))])
  ELSE NoBinding

\* What function k returns: what the first of its return expressions that
\* resolves resolves to.
ReturnedBinding(k) ==
  FirstBinding([i \in 1..Len(project.funcs[k].returns) |->
                  ExpressionBinding(k, project.funcs[k].returns[i])])

\* The declarations initialised by a call of a custom hook outside every
\* cycle of hooks.
AcyclicWrapperDeclarations ==
  {d \in Range(VisitedDeclarations) :
     /\ ResolveDirectHookWriteBinding(d.init, index).kind = "none"
     /\ CalleeFunctions(d.init) # {}
     /\ \A k \in CalleeFunctions(d.init) : IsAcyclicWrapper(k)}

\* The state the identifier is bound to in the final bindings.
BoundState(id, f) == ResolveStateIdFromIdentifier(id, f, setterBindings)

\* The state the bindings hold under the identifier's own symbol key.
OwnBoundState(id, f) == ResolveStateIdFromIdentifierBySymbol(id, f, setterBindings)

\* Every call of the identifier is a write event of state s at the call.
CallsWrite(id, s) ==
  \A c \in ProjectCalls :
    (c.calleeKind = "ident" /\ c.callee = id) =>
      \E e \in EventsAt(c) :
        e.stateId = s /\ e.type \in {"runtimeWrite", "initWrite"}

\* C16: wrapper-aware binding equals the binding of what the wrapper
\* returns: for a declaration initialised by a call of a custom hook, through
\* any acyclic chain of wrappers, the declared identifier (setter), the second
\* element of the array pattern (tuple) or the name destructured from
\* property p (object) is bound to state S exactly when the wrapper's return
\* expression resolves to a setter hook of S, a tuple hook of S, or an object
\* literal whose property p is a bare identifier or shorthand naming a local
\* setter of S; a call of the bound name is a write event of S.  Bound is
\* read as bound under the identifier's own symbol key.
C16_WrapperBindingIsReturnedBinding ==
  (Extracted /\ profile = "press-release") =>
    \A d \in AcyclicWrapperDeclarations :
      LET r == InitializerBinding(d.init)
          expected(id, s) == /\ OwnBoundState(id, d.file) = s
                             /\ s # NoState => CallsWrite(id, s)
      IN IF d.nameKind = "ident"
           THEN expected(d.name, IF r.kind = "setter" THEN r.stateId ELSE NoState)
         ELSE IF d.nameKind = "array"
           THEN \A i \in 1..Len(d.elements) :
                  d.elements[i].nameKind = "ident" =>
                    expected(d.elements[i].name,
                             IF r.kind = "tuple" /\ i = 2 THEN r.stateId ELSE NoState)
         ELSE \A e \in Range(d.elements) :
                \A id \in Range(CollectIdentifiersFromBindingName(e)) :
                  expected(id, IF r.kind = "object" /\ e.prop \in DOMAIN r.props
                                 THEN r.props[e.prop] ELSE NoState)


\* A component declares `const setCount = useChainedTwice()`, a wrapper of a
\* wrapper of a wrapper of the setter hook; the name is bound to the state
\* and its call is reported as a write of it.
C16_Witness ==
  /\ Extracted /\ profile = "press-release"
  /\ \E d \in AcyclicWrapperDeclarations :
       /\ d.nameKind = "ident"
       /\ \E k \in CalleeFunctions(d.init) : \E j \in CalledFrom(k) :
            /\ CalledFrom(j) # {}
            /\ ReturnedBinding(j).kind = "setter"
       /\ BoundState(d.name, d.file) # NoState
       /\ InitializerBinding(d.init) = StateBinding("setter", BoundState(d.name, d.file))
       /\ \E c \in ProjectCalls :
            /\ c.calleeKind = "ident" /\ c.callee = d.name
            /\ \E e \in EventsAt(c) :
                 e.stateId = BoundState(d.name, d.file) /\ e.type = "runtimeWrite"


\* The JSX attributes of the loaded files, in the order the forwarding loop
\* visits them, that pass a bare identifier bound in the base bindings to an
\* element whose tag is an identifier.
ForwardingAttributes ==
  LET base == BaseSetterBindings
  IN SelectSeq(Concat([i \in 1..Len(sourceFiles) |-> project.jsx[sourceFiles[i]]]),
               LAMBDA attr :
                 /\ attr.valueKind = "ident"
                 /\ attr.tagKind = "ident"
                 /\ ResolveStateIdFromIdentifier(attr.value, attr.file, base) # NoState)

\* The state the attribute's identifier is directly bound to.
ForwardedState(attr) ==
  ResolveStateIdFromIdentifier(attr.value, attr.file, BaseSetterBindings)

\* The function-like nodes the attribute's tag resolves to.
TagFunctions(attr) == Range(ResolveFunctionLikeNodesFromExpression("ident", attr.tag))

\* The binding elements that destructure the props of function F: those of
\* its first parameter's object pattern, or those of the own-scope
\* declarations `const { ... } = props` when the first parameter is the
\* identifier props.
PropsElements(F) ==
  LET fn == project.funcs[F]
  IN IF Len(fn.params) = 0 THEN {}
     ELSE IF fn.params[1].nameKind = "object" THEN Range(fn.params[1].elements)
     ELSE IF fn.params[1].nameKind = "ident"
       THEN UNION {Range(d.elements) :
                     d \in {x \in Range(project.decls[fn.file]) :
                              /\ IsInFunctionOwnScope(x, F)
                              /\ x.nameKind = "object"
                              /\ x.initId.text = fn.params[1].name.text}}
     ELSE {}

\* Every call of the identifier inside function F is a runtimeWrite of s.
CallsInsideAreRuntimeWrites(id, F, s) ==
  \A c \in Range(CallsWithin(project, F)) :
    (c.calleeKind = "ident" /\ c.callee = id) =>
      \E e \in EventsAt(c) : e.stateId = s /\ e.type = "runtimeWrite"

\* C17 as stated: when a parent passes a bare identifier directly bound to
\* state S as attribute p of a JSX element whose tag resolves to function F,
\* the local name destructured from property p in F (in the first parameter's
\* object pattern, or in an own-scope `const {p} = props`) is bound to S and a
\* call of that name inside F is a runtimeWrite of S; names destructured under
\* other property names are not bound.
C17_JsxForwardingBindsParentState ==
  (Extracted /\ profile = "press-release") =>
    \A i \in 1..Len(ForwardingAttributes) :
      LET attr == ForwardingAttributes[i]
      IN \A F \in TagFunctions(attr) : \A e \in PropsElements(F) :
           \A id \in Range(CollectIdentifiersFromBindingName(e)) :
             IF e.prop = attr.name
               THEN /\ BoundState(id, F[1]) = ForwardedState(attr)
                    /\ CallsInsideAreRuntimeWrites(id, F, ForwardedState(attr))
               ELSE BoundState(id, F[1]) = NoState

\* The states forwarded to property p of function F, in the order of the
\* forwarding loop.
StatesForwardedTo(F, p) ==
  LET attrs == SelectSeq(ForwardingAttributes,
                         LAMBDA attr : attr.name = p /\ F \in TagFunctions(attr))
  IN [i \in 1..Len(attrs) |-> ForwardedState(attrs[i])]

\* C17, amended: the local name destructured from property p in F is bound to
\* the state of the last attribute p, in the order of the forwarding loop,
\* that passes a directly bound identifier to an element whose tag resolves
\* to F (S itself when no later attribute forwards another state to p); a
\* call of that name inside F is a runtimeWrite of the bound state; names
\* destructured under a property name no such attribute has are not bound.
C17_JsxForwardingLastAttributeWins ==
  (Extracted /\ profile = "press-release") =>
    \A F \in DOMAIN project.funcs : \A e \in PropsElements(F) :
      \A id \in Range(CollectIdentifiersFromBindingName(e)) :
        LET states == StatesForwardedTo(F, e.prop)
        IN IF states = <<>> THEN BoundState(id, F[1]) = NoState
           ELSE /\ BoundState(id, F[1]) = states[Len(states)]
                /\ CallsInsideAreRuntimeWrites(id, F, states[Len(states)])

\* One parent passes its setter to a function that destructures its first
\* parameter and another passes a setter of another state to a function that
\* destructures `props` in its body, under a renamed local; both locals are
\* called and the calls are runtimeWrite events of the two states.
C17_Witness ==
  /\ Extracted /\ profile = "press-release"
  /\ \E i, j \in 1..Len(ForwardingAttributes) :
       LET a == ForwardingAttributes[i]
           b == ForwardingAttributes[j]
       IN /\ ForwardedState(a) # ForwardedState(b)
          /\ \E F \in TagFunctions(a) : \E e \in PropsElements(F) :
               /\ project.funcs[F].params[1].nameKind = "object"
               /\ e.prop = a.name /\ e.nameKind = "ident"
               /\ BoundState(e.name, F[1]) = ForwardedState(a)
               /\ \E c \in Range(CallsWithin(project, F)) :
                    /\ c.calleeKind = "ident" /\ c.callee = e.name
                    /\ \E ev \in EventsAt(c) :
                         ev.stateId = ForwardedState(a) /\ ev.type = "runtimeWrite"
               /\ \E other \in PropsElements(F) :
                    /\ other.prop # a.name /\ other.nameKind = "ident"
                    /\ BoundState(other.name, F[1]) = NoState
          /\ \E G \in TagFunctions(b) : \E e \in PropsElements(G) :
               /\ project.funcs[G].params[1].nameKind = "ident"
               /\ e.prop = b.name /\ e.nameKind = "ident"
               /\ e.name.text # e.prop
               /\ BoundState(e.name, G[1]) = ForwardedState(b)
               /\ \E c \in Range(CallsWithin(project, G)) :
                    /\ c.calleeKind = "ident" /\ c.callee = e.name
                    /\ \E ev \in EventsAt(c) :
                         ev.stateId = ForwardedState(b) /\ ev.type = "runtimeWrite"


\* The JSX attributes of the project.
ProjectAttributes == UNION {Range(project.jsx[f]) : f \in Files}

\* The setter-reference events located at the attribute's expression.
SetterReferenceEventsAt(attr) ==
  {e \in EventsAt(attr) :
     e.via \in {"hook-setter-reference", "initializeState:hook-setter-reference"}}

\* C18: an identifier bound to a setter of state S that is the sole
\* expression of a JSX attribute whose name starts with `on` yields a write
\* event of S located at the identifier, whether or not the setter is called;
\* a bound identifier that is the value of an attribute whose name does not
\* start with `on`, or only a part of the attribute's expression, yields no
\* setter-reference event.
C18_SetterReferenceInEventAttribute ==
  Extracted =>
    \A attr \in ProjectAttributes :
      LET s == BoundState(attr.value, attr.file)
      IN IF attr.valueKind = "ident" /\ StartsWithOn(attr.name)
           THEN s # NoState =>
                  /\ \E e \in SetterReferenceEventsAt(attr) :
                       e.stateId = s /\ e.type \in {"runtimeWrite", "initWrite"}
                  /\ \A e \in SetterReferenceEventsAt(attr) : e.stateId = s
           ELSE SetterReferenceEventsAt(attr) = {}

\* A component passes its bound setter as onClick and never calls it: the
\* only write event of the project is the one at the attribute; in other
\* reachable states the attribute is named handler or icon, or the setter is
\* one operand of the attribute's expression.
C18_Witness ==
  /\ Extracted
  /\ \E attr \in ProjectAttributes :
       /\ attr.valueKind = "ident" /\ attr.name = "onClick"
       /\ BoundState(attr.value, attr.file) # NoState
       /\ ~\E c \in ProjectCalls : c.calleeKind = "ident" /\ c.callee = attr.value
       /\ \E e \in SetterReferenceEventsAt(attr) :
            /\ e.stateId = BoundState(attr.value, attr.file)
            /\ e.type = "runtimeWrite"
            /\ \A w \in Range(usageEvents) :
                 (w.stateId = e.stateId /\ w.type \in {"runtimeWrite", "initWrite"}) => w = e


\* The declarations of the project.
ProjectDeclarations == UNION {Range(project.decls[f]) : f \in Files}

\* The call is selector({ ... }) or selectorFamily({ ... }) of recoil.
IsSelectorFactoryCall(call) ==
  /\ ResolveCalledFactory(call, project.imports[call.file]).module = "recoil"
  /\ ResolveCalledFactory(call, project.imports[call.file]).imported
       \in {"selector", "selectorFamily"}

\* The initializers of the `default` property assignments of the options
\* object the state was declared with.
DefaultInitializers(s) ==
  {p.value :
     p \in UNION {IF d.init.args # <<>> /\ d.init.args[1].kind = "object"
                    THEN {x \in Range(d.init.args[1].props) :
                            x.propKind = "PropertyAssignment" /\ x.name = "default"}
                    ELSE {} :
                  d \in {x \in ProjectDeclarations :
                           /\ x.hasCallInit
                           /\ <<x.file, x.line, x.column>>
                                = <<s.filePath, s.line, s.column>>}}}

\* The state is declared with a default that is a selector factory call or
\* an identifier declared as a selector.
HasDefaultSelector(s) ==
  \E v \in DefaultInitializers(s) :
    \/ v.kind = "call" /\ IsSelectorFactoryCall(v.call)
    \/ /\ v.kind = "ident"
       /\ \E d \in ProjectDeclarations :
            /\ <<d.file, d.line, d.column>> \in Range(v.id.declKeys)
            /\ d.topLevel /\ d.hasCallInit
            /\ IsSelectorFactoryCall(d.init)

\* C19: a recoil atom whose options `default` is a call of the recoil
\* selector/selectorFamily factory, or a reference resolving to a recoil
\* selector/selectorFamily state, has isRecoilPlainAtom = false and is never
\* reported by R004; every other recoil atom has isRecoilPlainAtom = true;
\* no state of another kind or store is plain.
C19_SelectorDefaultExemption ==
  pc # "loaded" =>
    \A i \in 1..Len(index.states) :
      LET s == index.states[i]
      IN /\ s.isRecoilPlainAtom
              = (s.store = "recoil" /\ s.kind = "atom" /\ ~HasDefaultSelector(s))
         /\ index.stateById[s.id].isRecoilPlainAtom = s.isRecoilPlainAtom
         /\ (pc = "audited" /\ s.store = "recoil" /\ s.kind = "atom"
               /\ HasDefaultSelector(s)) => ~ReportedByR004(s)

\* An atom whose default is a reference to a selector is read by a component
\* and never written; it is not plain and R004 does not report it, while the
\* atom with a literal default in the same file is plain.
C19_Witness ==
  /\ pc = "audited"
  /\ \E i, j \in 1..Len(index.states) :
       /\ index.states[i].store = "recoil" /\ index.states[i].kind = "atom"
       /\ \E v \in DefaultInitializers(index.states[i]) : v.kind = "ident"
       /\ HasDefaultSelector(index.states[i])
       /\ ~index.states[i].isRecoilPlainAtom
       /\ HasEvent(index.states[i].id, "read", "runtime")
       /\ ~HasEvent(index.states[i].id, "runtimeWrite", "runtime")
       /\ ~ReportedByR004(index.states[i])
       /\ index.states[j].store = "recoil" /\ index.states[j].kind = "atom"
       /\ index.states[j].isRecoilPlainAtom


\* The recoil atoms of the index whose default is a selector call or a
\* reference to a selector.
DefaultSelectorAtoms ==
  {s \in Range(index.states) :
     s.store = "recoil" /\ s.kind = "atom" /\ HasDefaultSelector(s)}

\* The selector states the atom's default refers to.
ReferencedSelectors(A) ==
  {s \in Range(index.states) :
     /\ s.store = "recoil" /\ s.kind \in {"selector", "selectorFamily"}
     /\ \E v \in DefaultInitializers(A) :
          /\ v.kind = "ident"
          /\ <<s.filePath, s.line, s.column>> \in Range(v.id.declKeys)}

EdgesFrom(s) == {e \in Range(dependencyEdges) : e.fromStateId = s.id}

\* The calls get(T) written inside the `default: selector({ ... })` property
\* of the atom's declaration whose argument is a state.
InlineDefaultReads(A) ==
  {c \in ProjectCalls :
     /\ c.file = A.filePath
     /\ \E i, j \in 1..Len(c.anc) :
          /\ i < j
          /\ c.anc[i].kind = "PropertyAssignment" /\ c.anc[i].name = "default"
          /\ c.anc[j].kind = "VariableDeclaration" /\ c.anc[j].name = A.name
     /\ c.calleeKind = "ident" /\ c.callee.text = "get"
     /\ ResolveStateFromExpression(c.args, index) # NoState}

\* C20: an atom with a selector default owns the selector's reads: for a
\* recoil atom A whose `default` is a selector call or a reference to
\* selector state S, every get-read of a state T in that selector's read
\* scopes is an edge A -> T at the read's location (next to the edge S -> T
\* when S is a state); a plain recoil atom is the from-state of no edge.
C20_DefaultSelectorOwnsReads ==
  Extracted =>
    /\ \A A \in DefaultSelectorAtoms :
         /\ \A S \in ReferencedSelectors(A) :
              {[e EXCEPT !.fromStateId = A.id] : e \in EdgesFrom(S)} = EdgesFrom(A)
         /\ \A c \in InlineDefaultReads(A) :
              \E e \in EdgesAt(c) :
                /\ e.fromStateId = A.id
                /\ e.toStateId = ResolveStateFromExpression(c.args, index)
    /\ \A e \in Range(dependencyEdges) :
         ~(/\ e.fromStateId \in DOMAIN index.stateById
           /\ index.stateById[e.fromStateId].store = "recoil"
           /\ index.stateById[e.fromStateId].kind = "atom"
           /\ index.stateById[e.fromStateId].isRecoilPlainAtom)

\* An atom declared with default: sourceSelector, the selector reading a
\* jotai atom through get: the read is an edge from the selector and an edge
\* from the atom at the same place, and the plain atom of the file has none.
C20_Witness ==
  /\ Extracted
  /\ \E A \in DefaultSelectorAtoms : \E S \in ReferencedSelectors(A) :
       \E e \in EdgesFrom(S) :
         /\ index.stateById[e.toStateId].store = "jotai"
         /\ [e EXCEPT !.fromStateId = A.id] \in EdgesFrom(A)
  /\ \E s \in Range(index.states) :
       s.isRecoilPlainAtom /\ EdgesFrom(s) = {}


\* The edges R001 is about: from a recoil selector or selectorFamily to a
\* jotai state.
IsCrossStoreSelectorEdge(e) ==
  /\ e.fromStateId \in DOMAIN index.stateById
  /\ e.toStateId \in DOMAIN index.stateById
  /\ index.stateById[e.fromStateId].store = "recoil"
  /\ index.stateById[e.fromStateId].kind \in {"selector", "selectorFamily"}
  /\ index.stateById[e.toStateId].store = "jotai"

\* The violation expected for such an edge.
R001ViolationOf(e) ==
  Violation("R001", index.stateById[e.fromStateId].name, e.filePath, e.line,
            "Recoil selector reads Jotai state via get(...)", <<>>)

\* The reads written in the get function of the selector declared as `name`:
\* get(T), ctx.get(T) on a parameter, or h.get(T) on a known store handle.
SelectorGetReads(S) ==
  {c \in ProjectCalls :
     /\ c.file = S.filePath
     /\ \E i \in 1..Len(c.anc) :
          c.anc[i].kind = "VariableDeclaration" /\ c.anc[i].name = S.name
     /\ \E i \in 1..Len(c.anc) : c.anc[i].kind \in FunctionLikeKinds
     /\ \/ c.calleeKind = "ident" /\ c.callee.text = "get"
        \/ /\ c.calleeKind = "member" /\ c.callee.text = "get" /\ c.baseKind = "ident"
           /\ \/ c.base.text = "ctx"
              \/ SymKey(c.base.sym) \in jotaiStoreSymbolKeys}

\* C21: R001 reports one violation per deduplicated dependency edge from a
\* recoil selector or selectorFamily to a jotai state and none for any other
\* edge; every recoil selector whose get function reads a jotai state (through
\* destructured get, ctx.get, method-shorthand get or a known handle's get) is
\* reported.
C21_R001OnePerCrossStoreEdge ==
  pc = "audited" =>
    /\ \A v \in {violations[i] : i \in 1..Len(violations)}
                  \cup {R001ViolationOf(e) :
                          e \in {x \in Range(dependencyEdges) : IsCrossStoreSelectorEdge(x)}} :
         v.rule = "R001" =>
           Cardinality({i \in 1..Len(violations) : violations[i] = v})
             = Cardinality({i \in 1..Len(dependencyEdges) :
                              /\ IsCrossStoreSelectorEdge(dependencyEdges[i])
                              /\ R001ViolationOf(dependencyEdges[i]) = v})
    /\ \A S \in Range(index.states) :
         (S.store = "recoil" /\ S.kind \in {"selector", "selectorFamily"}) =>
           \A c \in SelectorGetReads(S) :
             (/\ ResolveStateFromExpression(c.args, index) # NoState
              /\ index.stateById[ResolveStateFromExpression(c.args, index)].store = "jotai")
               => \E i \in 1..Len(violations) :
                    /\ violations[i].rule = "R001"
                    /\ violations[i].state = S.name
                    /\ violations[i].file = c.file
                    /\ violations[i].line = c.line

\* The selector reads sharedAtom through a known store handle, and the atom
\* whose default is the selector owns the same read: one R001 violation, for
\* the selector.
C21_Witness ==
  /\ pc = "audited"
  /\ \E S \in Range(index.states) : \E c \in SelectorGetReads(S) :
       /\ S.kind = "selector"
       /\ c.calleeKind = "member" /\ c.base.text = "store"
       /\ \E e \in EdgesAt(c) : IsCrossStoreSelectorEdge(e)
       /\ \E e \in EdgesAt(c) : ~IsCrossStoreSelectorEdge(e)
       /\ Cardinality({i \in 1..Len(violations) : violations[i].rule = "R001"}) = 1


\* The function passed to a useRecoilCallback call, directly or through one
\* useCallback call (the empty set when there is none).
RecoilCallbackFunctions(h) ==
  IF h.calleeKind # "ident" \/ h.callee.text # "useRecoilCallback" \/ Len(h.args) = 0
    THEN {}
  ELSE IF h.args[1].kind = "fn" THEN {h.args[1].fn}
  ELSE IF /\ h.args[1].kind = "call"
          /\ h.args[1].call.calleeKind = "ident"
          /\ h.args[1].call.callee.text = "useCallback"
          /\ Len(h.args[1].call.args) > 0
          /\ h.args[1].call.args[1].kind = "fn"
    THEN {h.args[1].call.args[1].fn}
  ELSE {}

RecoilCallbackFactoryFunctions == UNION {RecoilCallbackFunctions(h) : h \in ProjectCalls}

\* The local names destructured from property p of the first parameter of F.
DestructuredFrom(F, p) ==
  IF Len(project.funcs[F].params) = 0 \/ project.funcs[F].params[1].nameKind # "object"
    THEN {}
    ELSE {e.name.text : e \in {x \in Range(project.funcs[F].params[1].elements) :
                                 x.prop = p /\ x.nameKind = "ident"}}

\* Which mutation call c is for the callback function F: a(...) with a
\* destructured from set or reset, ctx.set(...) or ctx.reset(...) on the
\* named first parameter, or neither ("").
AliasMutationKind(c, F) ==
  IF c.calleeKind = "ident"
    THEN IF c.callee.text \in DestructuredFrom(F, "set") THEN "set"
         ELSE IF c.callee.text \in DestructuredFrom(F, "reset") THEN "reset"
         ELSE ""
  ELSE IF /\ c.calleeKind = "member" /\ c.baseKind = "ident"
          /\ c.callee.text \in {"set", "reset"}
          /\ Len(project.funcs[F].params) > 0
          /\ project.funcs[F].params[1].nameKind = "ident"
          /\ c.base.text = project.funcs[F].params[1].name.text
    THEN c.callee.text
  ELSE ""

\* The calls inside callback function F whose first argument is a state.
StateCallsInside(F) ==
  {c \in ProjectCalls :
     IsDescendantOf(c, F) /\ ResolveStateFromExpression(c.args, index) # NoState}

WritesOfKindAt(c, kind) ==
  {e \in EventsAt(c) :
     IsWrite(e) /\ e.via \in {GetMutationVias(kind)[1], GetMutationVias(kind)[2]}}

MaxDepthBound == 3

\* context.stateById of the queries below: three states, two of one name.
ImpactStates ==
  <<[id |-> CreateStateId(1, "counterState"), name |-> "counterState",
     filePath |-> 1, line |-> 1, column |-> 14],
    [id |-> CreateStateId(1, "sourceSelector"), name |-> "sourceSelector",
     filePath |-> 1, line |-> 4, column |-> 14],
    [id |-> CreateStateId(2, "counterState"), name |-> "counterState",
     filePath |-> 2, line |-> 1, column |-> 14]>>

ImpactStateIds == {s.id : s \in Range(ImpactStates)}

ImpactStateById == [id \in ImpactStateIds |->
                      CHOOSE s \in Range(ImpactStates) : s.id = id]

\* Every edge between two of the states, in the order the edges are listed.
ImpactEdgeOrder ==
  <<[fromStateId |-> ImpactStates[1].id, toStateId |-> ImpactStates[2].id],
    [fromStateId |-> ImpactStates[3].id, toStateId |-> ImpactStates[1].id],
    [fromStateId |-> ImpactStates[2].id, toStateId |-> ImpactStates[3].id],
    [fromStateId |-> ImpactStates[2].id, toStateId |-> ImpactStates[1].id],
    [fromStateId |-> ImpactStates[1].id, toStateId |-> ImpactStates[3].id],
    [fromStateId |-> ImpactStates[3].id, toStateId |-> ImpactStates[2].id],
    [fromStateId |-> ImpactStates[1].id, toStateId |-> ImpactStates[1].id],
    [fromStateId |-> ImpactStates[2].id, toStateId |-> ImpactStates[2].id],
    [fromStateId |-> ImpactStates[3].id, toStateId |-> ImpactStates[3].id]>>

\* The dependency graphs of the queries: any set of these edges.
ImpactGraphs ==
  {SubSeqByIdx(ImpactEdgeOrder, I) : I \in SUBSET (1..Len(ImpactEdgeOrder))}

\* buildReverseDependencyMap: toStateId -> the Set of fromStateIds, in
\* insertion order.
BuildReverseDependencyMap(edges) ==
  FoldLeft(LAMBDA reverseMap, edge :
             LET dependents == IF edge.toStateId \in DOMAIN reverseMap
                               THEN reverseMap[edge.toStateId] ELSE <<>>
             IN MapSet(reverseMap, edge.toStateId,
                       IF edge.fromStateId \in Range(dependents) THEN dependents
                       ELSE Append(dependents, edge.fromStateId)),
           EmptyMap, edges)

\* visitedDepth.get(stateId); -1 stands for undefined.
VisitedGet(visited, stateId) ==
  LET hits == {i \in 1..Len(visited) : visited[i][1] = stateId}
  IN IF hits = {} THEN -1 ELSE visited[CHOOSE i \in hits : TRUE][2]

\* visitedDepth.set(stateId, depth): a key keeps its insertion position.
VisitedSet(visited, stateId, depth) ==
  IF VisitedGet(visited, stateId) = -1 THEN Append(visited, <<stateId, depth>>)
  ELSE [i \in 1..Len(visited) |->
          IF visited[i][1] = stateId THEN <<stateId, depth>> ELSE visited[i]]

\* The body of `for (const dependentStateId of dependents)`.
VisitDependent(acc, dependentStateId, nextDepth) ==
  LET existingDepth == VisitedGet(acc.visitedDepth, dependentStateId)
  IN IF existingDepth # -1 /\ existingDepth <= nextDepth THEN acc
     ELSE [visitedDepth |-> VisitedSet(acc.visitedDepth, dependentStateId, nextDepth),
           queue |-> Append(acc.queue, [stateId |-> dependentStateId,
                                        depth |-> nextDepth])]

\* One iteration of the while loop that follows every reverse edge of the
\* current state whatever its depth.
ExpandCurrentUncapped(current, depthLimit, reverseMap, visited, rest) ==
  IF current.stateId \notin DOMAIN reverseMap
  THEN [visitedDepth |-> visited, queue |-> rest]
  ELSE FoldLeft(LAMBDA acc, d : VisitDependent(acc, d, current.depth + 1),
                [visitedDepth |-> visited, queue |-> rest],
                reverseMap[current.stateId])

\* One iteration of the while loop, after queue.shift().
ExpandCurrent(current, depthLimit, reverseMap, visited, rest) ==
  IF current.depth >= depthLimit THEN [visitedDepth |-> visited, queue |-> rest]
  ELSE IF current.stateId \notin DOMAIN reverseMap
  THEN [visitedDepth |-> visited, queue |-> rest]
  ELSE FoldLeft(LAMBDA acc, d : VisitDependent(acc, d, current.depth + 1),
                [visitedDepth |-> visited, queue |-> rest],
                reverseMap[current.stateId])

\* The sort of the returned dependents: depth, file, line, state name.
ImpactDependentLess(left, right) ==
  IF left.depth # right.depth THEN left.depth < right.depth
  ELSE IF left.file # right.file THEN left.file < right.file
  ELSE IF left.line # right.line THEN left.line < right.line
  ELSE NameRank(left.state) < NameRank(right.state)

\* [...visitedDepth.entries()].map(...).filter(Boolean).sort(...)
ImpactDependents(visited, stateById) ==
  LET known == SubSeqByIdx(visited, {i \in 1..Len(visited) :
                                       visited[i][1] \in DOMAIN stateById})
      items == [i \in 1..Len(known) |->
                  LET state == stateById[known[i][1]]
                  IN [state |-> state.name, file |-> state.filePath,
                      line |-> state.line, column |-> state.column,
                      depth |-> known[i][2]]]
  IN StableSort(items, ImpactDependentLess)

\* runImpact up to the call: the reverse map is built, then
\* collectTransitiveDependents returns at once for maxDepth <= 0 and
\* otherwise starts its queue with the target at depth 0.
CollectStart ==
  /\ ipc = "query"
  /\ reverseDependencyMap' = BuildReverseDependencyMap(impactEdges)
  /\ IF maxDepth <= 0
     THEN /\ ipc' = "done"
          /\ UNCHANGED queue
     ELSE /\ ipc' = "loop"
          /\ queue' = <<[stateId |-> impactTargetStateId, depth |-> 0]>>
  /\ UNCHANGED <<impactEdges, impactTargetStateId, maxDepth, visitedDepth,
                 transitiveDependents>>
  /\ UNCHANGED <<analyzerVars, cliVars, fixtureVars>>

\* while (queue.length > 0) { ... }: one iteration.
CollectLoop ==
  /\ ipc = "loop"
  /\ queue # <<>>
  /\ LET after == ExpandCurrent(Head(queue), maxDepth, reverseDependencyMap,
                                visitedDepth, Tail(queue))
     IN /\ visitedDepth' = after.visitedDepth
        /\ queue' = after.queue
  /\ UNCHANGED <<impactEdges, impactTargetStateId, maxDepth, reverseDependencyMap,
                 transitiveDependents, ipc>>
  /\ UNCHANGED <<analyzerVars, cliVars, fixtureVars>>

\* The queue is empty: the dependents are mapped, filtered, sorted, returned.
CollectReturn ==
  /\ ipc = "loop"
  /\ queue = <<>>
  /\ transitiveDependents' = ImpactDependents(visitedDepth, ImpactStateById)
  /\ ipc' = "done"
  /\ UNCHANGED <<impactEdges, impactTargetStateId, maxDepth, reverseDependencyMap,
                 queue, visitedDepth>>
  /\ UNCHANGED <<analyzerVars, cliVars, fixtureVars>>

\* A query: a dependency graph, a target state and a depth (Math.max(0, depth)).
ImpactInit ==
  /\ AnalyzerIdle
  /\ CliIdle
  /\ FixtureIdle
  /\ impactEdges \in ImpactGraphs
  /\ impactTargetStateId \in ImpactStateIds
  /\ maxDepth \in 0..MaxDepthBound
  /\ reverseDependencyMap = EmptyMap
  /\ queue = <<>>
  /\ visitedDepth = <<>>
  /\ transitiveDependents = <<>>
  /\ ipc = "query"

ImpactNext == CollectStart \/ CollectLoop \/ CollectReturn

\* The computation is sequential code: it keeps running until it returns.
ImpactSpec == ImpactInit /\ [][ImpactNext]_vars /\ WF_vars(ImpactNext)

\* The states one reverse dependency edge away from a state of S.
ReverseStep(S) ==
  {e.fromStateId : e \in {x \in Range(impactEdges) : x.toStateId \in S}}

\* The states exactly k reverse dependency edges away from the target.
RECURSIVE ReverseLevel(_)
ReverseLevel(k) ==
  IF k = 0 THEN {impactTargetStateId} ELSE ReverseStep(ReverseLevel(k - 1))

\* The distances between 1 and maxDepth at which a state is reachable.
ReverseDistances(id) == {k \in 1..maxDepth : id \in ReverseLevel(k)}

\* The entry of the result that lists a state.
ListedAs(id) ==
  {i \in 1..Len(transitiveDependents) :
     /\ transitiveDependents[i].state = ImpactStateById[id].name
     /\ transitiveDependents[i].file = ImpactStateById[id].filePath
     /\ transitiveDependents[i].line = ImpactStateById[id].line
     /\ transitiveDependents[i].column = ImpactStateById[id].column}

ImpactResultExact ==
  /\ \A id \in ImpactStateIds :
       IF ReverseDistances(id) = {} THEN ListedAs(id) = {}
       ELSE /\ Cardinality(ListedAs(id)) = 1
            /\ \A i \in ListedAs(id) :
                 /\ transitiveDependents[i].depth \in ReverseDistances(id)
                 /\ \A k \in ReverseDistances(id) :
                      transitiveDependents[i].depth <= k
  /\ \A i \in 1..Len(transitiveDependents) :
       \E id \in ImpactStateIds : i \in ListedAs(id)
  /\ maxDepth = 0 => transitiveDependents = <<>>

\* C23: for every dependency graph, cyclic ones included, and every depth
\* d >= 0 the computation of transitiveDependents terminates, and what it
\* returns lists exactly the states reachable from the target by 1..d reverse
\* dependency edges, each once, with its shortest such distance; d = 0
\* returns the empty list.
C23_ImpactDepthExact ==
  /\ <>(ipc = "done")
  /\ [](ipc = "done" => ImpactResultExact)

\* A target on a cycle of three states, cut by depth 2: the other two states
\* are listed at depths 1 and 2, the target, three edges away, is not.
C23_Witness ==
  /\ ipc = "done"
  /\ maxDepth = 2
  /\ Len(transitiveDependents) = 2
  /\ transitiveDependents[1].depth = 1
  /\ transitiveDependents[2].depth = 2
  /\ impactTargetStateId \in ReverseLevel(3)
  /\ ListedAs(impactTargetStateId) = {}


(***************************************************************************)
(* The command line of the audit: parseCliArgs, getSingleArg,              *)
(* createAnalyzerConfig, resolveProfile.                                   *)
(***************************************************************************)
\* The longest command line read below.
MaxArgs == 3

\* An optional string: undefined, or a string.
Undefined == [defined |-> FALSE, text |-> ""]

Defined(text) == [defined |-> TRUE, text |-> text]

\* A token that does not start with "--".
Word(text) == [dashed |-> FALSE, key |-> "", inline |-> Undefined, text |-> text]

\* The token `--key`.
Option(key) == [dashed |-> TRUE, key |-> key, inline |-> Undefined, text |-> ""]

\* The token `--key=value`.
OptionEq(key, value) ==
  [dashed |-> TRUE, key |-> key, inline |-> Defined(value), text |-> ""]

\* The profile names given on the command lines below.
ProfileNames == {"core", "press-release", "extended", "full"}

CliTokens ==
  {Option("profile"), Option("format"), OptionEq("profile", "")}
    \cup {OptionEq("profile", n) : n \in ProfileNames}
    \cup {Word(n) : n \in ProfileNames}

CommandLines == UNION {[1..n -> CliTokens] : n \in 0..MaxArgs}

\* pushArgValue: the values of a key, in the order given.
PushArgValue(store, key, value) ==
  MapSet(store, key, (IF key \in DOMAIN store THEN store[key] ELSE <<>>) \o <<value>>)

\* parseCliArgs: the loop from token i on.
RECURSIVE ParseCliArgsFrom(_, _, _)
ParseCliArgsFrom(args, i, acc) ==
  IF i > Len(args) THEN acc
  ELSE LET token == args[i]
       IN IF ~token.dashed
          THEN ParseCliArgsFrom(args, i + 1,
                 [acc EXCEPT !.positionals = Append(@, token.text)])
          ELSE IF token.inline.defined
          THEN ParseCliArgsFrom(args, i + 1,
                 [acc EXCEPT !.values = PushArgValue(@, token.key, token.inline.text)])
          ELSE IF i + 1 <= Len(args) /\ ~args[i + 1].dashed /\ args[i + 1].text # ""
          THEN ParseCliArgsFrom(args, i + 2,
                 [acc EXCEPT !.values = PushArgValue(@, token.key, args[i + 1].text)])
          ELSE ParseCliArgsFrom(args, i + 1,
                 [acc EXCEPT !.flags = @ \cup {token.key}])

ParseCliArgs(args) ==
  ParseCliArgsFrom(args, 1, [positionals |-> <<>>, values |-> EmptyMap, flags |-> {}])

\* getSingleArg: the last value given for the key.
GetSingleArg(args, key) ==
  IF key \notin DOMAIN args.values THEN Undefined
  ELSE IF Len(args.values[key]) = 0 THEN Undefined
  ELSE Defined(args.values[key][Len(args.values[key])])

\* resolveProfile: the profile, or the Error it throws.
ResolveProfile(input) ==
  IF ~input.defined \/ input.text = "" \/ input.text = "press-release"
  THEN [threw |-> FALSE, profile |-> "press-release", message |-> <<>>]
  ELSE IF input.text = "core"
  THEN [threw |-> FALSE, profile |-> "core", message |-> <<>>]
  ELSE [threw |-> TRUE, profile |-> "",
        message |-> <<"Unsupported profile: ", input.text>>]

\* createAnalyzerConfig: the profile and its capabilities (no --root, --tsconfig,
\* --include or --exclude is given on the command lines read here).
CreateAnalyzerConfig(input) ==
  LET resolved == ResolveProfile(input.profile)
  IN IF resolved.threw
     THEN [threw |-> TRUE, message |-> resolved.message, profile |-> "",
           capabilities |-> GetCapabilityFlags("core")]
     ELSE [threw |-> FALSE, message |-> <<>>, profile |-> resolved.profile,
           capabilities |-> GetCapabilityFlags(resolved.profile)]

\* const args = parseCliArgs(process.argv.slice(2))
ParseCliArgsStep ==
  /\ cpc = "argv"
  /\ parsedArgs' = ParseCliArgs(argv)
  /\ cpc' = "parsed"
  /\ UNCHANGED <<argv, config>>
  /\ UNCHANGED <<analyzerVars, impactVars, fixtureVars>>

\* createAnalyzerConfig({ ..., profile: getSingleArg(args, "profile") })
CreateAnalyzerConfigStep ==
  /\ cpc = "parsed"
  /\ config' = CreateAnalyzerConfig([profile |-> GetSingleArg(parsedArgs, "profile")])
  /\ cpc' = IF config'.threw THEN "failed" ELSE "configured"
  /\ UNCHANGED <<argv, parsedArgs>>
  /\ UNCHANGED <<analyzerVars, impactVars, fixtureVars>>

CliInit ==
  /\ AnalyzerIdle
  /\ ImpactIdle
  /\ FixtureIdle
  /\ argv \in CommandLines
  /\ parsedArgs = <<>>
  /\ config = <<>>
  /\ cpc = "argv"

CliNext == ParseCliArgsStep \/ CreateAnalyzerConfigStep

CliSpec == CliInit /\ [][CliNext]_vars

\* The profile given on the command line, once it is parsed.
GivenProfile == GetSingleArg(parsedArgs, "profile")

AllCapabilities(value) ==
  [callbacks |-> value, wrappers |-> value, forwarding |-> value, storeApi |-> value]

\* C24: resolveProfile maps a missing profile and the name extended to the
\* profile with the four capabilities on, core to the profile with the four
\* off, and fails with an Unsupported profile error for every other name.
C24_ProfileResolution ==
  cpc \in {"configured", "failed"} =>
    IF ~GivenProfile.defined \/ GivenProfile.text \in {"", "extended"}
    THEN ~config.threw /\ config.capabilities = AllCapabilities(TRUE)
    ELSE IF GivenProfile.text = "core"
    THEN ~config.threw /\ config.capabilities = AllCapabilities(FALSE)
    ELSE /\ config.threw
         /\ config.message = <<"Unsupported profile: ", GivenProfile.text>>


(***************************************************************************)
(* The fixture harness: isSubsetMatch on JSON values.                      *)
(***************************************************************************)
\* The longest array compared below.
MaxItems == 2

\* JSON values: null, a number, an array, an object.
JsonNull == [t |-> "null", n |-> 0, items |-> <<>>, fields |-> EmptyMap]

JsonNumber(n) == [t |-> "number", n |-> n, items |-> <<>>, fields |-> EmptyMap]

JsonArray(items) == [t |-> "array", n |-> 0, items |-> items, fields |-> EmptyMap]

JsonObject(fields) == [t |-> "object", n |-> 0, items |-> <<>>, fields |-> fields]

\* The objects compared below: violations with a rule, a file, both or neither.
JsonObjects ==
  {JsonObject(EmptyMap),
   JsonObject([k \in {"rule"} |-> JsonNumber(1)]),
   JsonObject([k \in {"rule"} |-> JsonNumber(2)]),
   JsonObject([k \in {"file"} |-> JsonNumber(1)]),
   JsonObject([k \in {"rule", "file"} |-> JsonNumber(1)])}

JsonArrays == UNION {{JsonArray(s) : s \in [1..n -> JsonObjects]} : n \in 0..MaxItems}

JsonValues == {JsonNull, JsonNumber(1), JsonNumber(2)} \cup JsonObjects \cup JsonArrays

\* isSubsetMatch, and the loop over the expected items of an array from item
\* k on, with the indices of actual already used.
RECURSIVE IsSubsetMatch(_, _)
RECURSIVE MatchExpectedItems(_, _, _, _)
MatchExpectedItems(actual, expected, k, used) ==
  IF k > Len(expected) THEN TRUE
  ELSE LET free == {i \in 1..Len(actual) :
                      i \notin used /\ IsSubsetMatch(actual[i], expected[k])}
       IN IF free = {} THEN FALSE
          ELSE MatchExpectedItems(actual, expected, k + 1,
                 used \cup {CHOOSE i \in free : \A j \in free : i <= j})

IsSubsetMatch(actual, expected) ==
  IF expected.t = "null" THEN actual.t = "null"
  ELSE IF expected.t = "number" THEN actual.t = "number" /\ actual.n = expected.n
  ELSE IF expected.t = "array"
  THEN IF actual.t # "array" THEN FALSE
       ELSE MatchExpectedItems(actual.items, expected.items, 1, {})
  ELSE IF actual.t # "object" THEN FALSE
  ELSE \A key \in DOMAIN expected.fields :
         /\ key \in DOMAIN actual.fields
         /\ IsSubsetMatch(actual.fields[key], expected.fields[key])

\* const ok = isSubsetMatch(actual, expected)
CompareFixtureStep ==
  /\ fpc = "loaded"
  /\ fixtureOk' = IsSubsetMatch(actualOutput, expectedOutput)
  /\ fpc' = "compared"
  /\ UNCHANGED <<actualOutput, expectedOutput>>
  /\ UNCHANGED <<analyzerVars, impactVars, cliVars>>

\* The audit's output and the parsed expected.json of a fixture.
FixtureInit ==
  /\ AnalyzerIdle
  /\ ImpactIdle
  /\ CliIdle
  /\ actualOutput \in JsonValues
  /\ expectedOutput \in JsonValues
  /\ fixtureOk = FALSE
  /\ fpc = "loaded"

FixtureNext == CompareFixtureStep

FixtureSpec == FixtureInit /\ [][FixtureNext]_vars

\* expected is semantically contained in actual: equal scalars; every expected
\* key in actual with a contained value; the expected items assigned to
\* pairwise distinct actual items that contain them.
RECURSIVE Contained(_, _)
Contained(actual, expected) ==
  IF expected.t = "null" THEN actual.t = "null"
  ELSE IF expected.t = "number" THEN actual.t = "number" /\ actual.n = expected.n
  ELSE IF expected.t = "array"
  THEN /\ actual.t = "array"
       /\ \E f \in [1..Len(expected.items) -> 1..Len(actual.items)] :
            /\ \A i, j \in 1..Len(expected.items) : i # j => f[i] # f[j]
            /\ \A i \in 1..Len(expected.items) :
                 Contained(actual.items[f[i]], expected.items[i])
  ELSE /\ actual.t = "object"
       /\ \A key \in DOMAIN expected.fields :
            /\ key \in DOMAIN actual.fields
            /\ Contained(actual.fields[key], expected.fields[key])

\* C25: isSubsetMatch(actual, expected) is true exactly when expected is
\* semantically contained in actual; for arrays, whenever an assignment of the
\* expected items to pairwise distinct matching actual items exists, whatever
\* the order of the items.
C25_SubsetMatchIsContainment ==
  fpc = "compared" => (fixtureOk <=> Contained(actualOutput, expectedOutput))


(***************************************************************************)
(* Setter calls through the file-scoped fallback key.                      *)
(***************************************************************************)
SetterCallVias == {"hook-setter-call", "initializeState:hook-setter-call"}

\* The setter-call events emitted for a call.
SetterCallEventsAt(c) == {e \in EventsAt(c) : e.via \in SetterCallVias}

\* The calls whose callee is an identifier that resolves to a symbol which
\* has no entry of its own in the setter bindings.
CallsOfUnboundSymbols ==
  {c \in {x \in ProjectCalls : x.calleeKind = "ident"} :
     /\ GetSymbolKey(c.callee) # NoSym
     /\ SymKey(GetSymbolKey(c.callee)) \notin DOMAIN setterBindings}

\* C26 as stated: a call whose callee identifier resolves to a symbol that
\* was never bound as a setter produces no setter-call write event, even when
\* another identifier of the same name in the same file is bound.
C26_NoSetterCallForUnboundSymbol ==
  Extracted => \A c \in CallsOfUnboundSymbols : SetterCallEventsAt(c) = {}

\* C26: a call whose callee identifier resolves to a symbol without a binding
\* of its own produces a setter-call write event exactly when the fallback key
\* of its name in its file is bound, and the event then names the state held
\* under that key: the state of the same-named setter of the file.
C26_SetterCallThroughFallbackKey ==
  Extracted =>
    \A c \in CallsOfUnboundSymbols :
      LET key == GetFallbackSetterKey(c.file, c.callee.text)
      IN IF key \in DOMAIN setterBindings
         THEN /\ SetterCallEventsAt(c) # {}
              /\ \A e \in SetterCallEventsAt(c) : e.stateId = setterBindings[key]
         ELSE SetterCallEventsAt(c) = {}

\* function report(setCount) { setCount(1); } next to a component that binds
\* its own setCount: the parameter's call is reported as a write of the
\* component's state.
C26_Witness ==
  /\ Extracted
  /\ \E c \in CallsOfUnboundSymbols :
       /\ \E i \in 1..Len(c.anc) : c.anc[i].kind = "FunctionDeclaration"
                                     /\ c.anc[i].name = "report"
       /\ \E e \in SetterCallEventsAt(c) :
            e.stateId = CreateStateId(1, "counterState") /\ e.actorName = "report"
       /\ \E d \in ProjectCalls :
            /\ d.file = c.file /\ d.calleeKind = "ident"
            /\ d.callee.text \in {"useSetRecoilState", "useSetAtom"}


(***************************************************************************)
(* The wrapper cache of buildSetterBindings and the order of resolution.   *)
(***************************************************************************)
\* The declarations buildSetterBindings resolves, in the order of its loop.
WrapperCallSites == CallInitializedDeclarations(sourceFiles, project)

\* The same declarations with the i-th one resolved first.
ResolvedFirst(decls, i) ==
  <<decls[i]>> \o SubSeqByIdx(decls, (1..Len(decls)) \ {i})

\* hookBindingCache once the loop has run over the declarations.
HookBindingCacheAfter(decls) == ResolveDeclarations(decls, project, index).cache

\* The two caches agree on every wrapper function both hold.
SameCachedBindings(left, right) ==
  \A key \in DOMAIN left \cap DOMAIN right : left[key] = right[key]

\* C27: the binding recorded in the wrapper cache for a wrapper function, a
\* recorded negative result included, is the same whichever wrapper call site
\* is resolved first, also for wrappers that reference each other.
C27_WrapperCacheOrderIndependent ==
  (Extracted /\ profile = "press-release") =>
    \A i \in 1..Len(WrapperCallSites) :
      SameCachedBindings(HookBindingCacheAfter(WrapperCallSites),
                         HookBindingCacheAfter(ResolvedFirst(WrapperCallSites, i)))


(***************************************************************************)
(* The owner of an edge and the owner of its dependency read event.        *)
(***************************************************************************)
\* A dependency read event of the output at the edge's location for the
\* edge's to-state, with the given owner.
OwnerEventOf(edge, owner) ==
  \E e \in Range(usageEvents) :
    /\ e.phase = "dependency" /\ e.type = "read"
    /\ e.filePath = edge.filePath /\ e.line = edge.line /\ e.column = edge.column
    /\ e.stateId = edge.toStateId
    /\ e.actorStateId = owner

\* The owners of the edges that share the edge's read and whose state has the
\* name of the edge's owner.
SameNamedOwners(edge) ==
  {d.fromStateId : d \in {x \in Range(dependencyEdges) :
     /\ x.toStateId = edge.toStateId
     /\ x.filePath = edge.filePath /\ x.line = edge.line /\ x.column = edge.column
     /\ index.stateById[x.fromStateId].name = index.stateById[edge.fromStateId].name}}

\* C28 as stated: for every dependency edge of the output there is a
\* dependency read event of the output at its location with stateId the
\* edge's toStateId and actorStateId the edge's fromStateId, also when two
\* owner states of one name in different files own the same read site.
C28_EdgeOwnerHasEvent ==
  Extracted =>
    \A i \in 1..Len(dependencyEdges) :
      OwnerEventOf(dependencyEdges[i], dependencyEdges[i].fromStateId)

\* C28: for every dependency edge of the output there is a dependency read
\* event at its location for its to-state, owned by the edge's from-state or
\* by another state of the same name that owns the same read; exactly one of
\* the owners of one name keeps its event, so the event's actorStateId is the
\* edge's fromStateId whenever no second owner of that name reads there.
C28_EdgeOwnerHasEventUpToName ==
  Extracted =>
    \A i \in 1..Len(dependencyEdges) :
      Cardinality({owner \in SameNamedOwners(dependencyEdges[i]) :
                     OwnerEventOf(dependencyEdges[i], owner)}) = 1

\* The atom sourceSelector of file 2 has the selector sourceSelector of file 1
\* as its default: the selector's read carries an edge from each of the two,
\* and one dependency read event, owned by the selector.
C28_Witness ==
  /\ Extracted
  /\ \E i, j \in 1..Len(dependencyEdges) :
       /\ dependencyEdges[i].fromStateId = CreateStateId(1, "sourceSelector")
       /\ dependencyEdges[j].fromStateId = CreateStateId(2, "sourceSelector")
       /\ dependencyEdges[j].fromStateId \in SameNamedOwners(dependencyEdges[i])
       /\ OwnerEventOf(dependencyEdges[i], dependencyEdges[i].fromStateId)
       /\ ~OwnerEventOf(dependencyEdges[j], dependencyEdges[j].fromStateId)


(***************************************************************************)
(* Forwarding and the direct bindings.                                     *)
(***************************************************************************)
\* The forwarding capability is on: the setter bindings of the state are what
\* propagateSetterBindingsOneHop returned for the base bindings.
Forwarded == Extracted /\ GetCapabilityFlags(profile).forwarding

\* C29 as stated: every key of the map given to propagateSetterBindingsOneHop
\* is in the returned map with the same stateId: no forwarded binding
\* replaces the state of a direct binding key, symbol key or name key.
C29_ForwardingOnlyAdds ==
  Forwarded =>
    \A key \in DOMAIN BaseSetterBindings :
      key \in DOMAIN setterBindings /\ setterBindings[key] = BaseSetterBindings[key]

\* The symbol keys forwarding added for an identifier of the name and file of
\* a name key.
ForwardedNamesakes(key) ==
  {s \in DOMAIN setterBindings \ DOMAIN BaseSetterBindings :
     s[1] = "sym" /\ s[2] = key[2] /\ s[5] = key[5]}

\* C29: every key of the base bindings is in the returned map; a symbol key
\* keeps its stateId; a file-scoped name key keeps its stateId unless a
\* forwarded parameter of that name in that file was bound, and then holds a
\* state forwarded to such a parameter.
C29_ForwardingKeepsSymbolKeys ==
  Forwarded =>
    \A key \in DOMAIN BaseSetterBindings :
      /\ key \in DOMAIN setterBindings
      /\ key[1] = "sym" => setterBindings[key] = BaseSetterBindings[key]
      /\ setterBindings[key] # BaseSetterBindings[key] =>
           \E s \in ForwardedNamesakes(key) : setterBindings[s] = setterBindings[key]

\* announce(setOther) forwards the setter of sharedAtom to the parameter
\* setCount of a function in the file where the component's own setCount is
\* bound to counterState: the name key of setCount now holds sharedAtom, the
\* symbol key of the component's setCount still holds counterState.
C29_Witness ==
  /\ Forwarded
  /\ \E key \in DOMAIN BaseSetterBindings :
       /\ key = GetFallbackSetterKey(1, "setCount")
       /\ BaseSetterBindings[key] = CreateStateId(1, "counterState")
       /\ setterBindings[key] = CreateStateId(1, "sharedAtom")
  /\ \E key \in DOMAIN BaseSetterBindings :
       /\ key[1] = "sym" /\ key[5] = "setCount"
       /\ setterBindings[key] = CreateStateId(1, "counterState")


\* The write events of one state located at a call.
WriteEventsAt(c, stateId) ==
  {e \in EventsAt(c) : IsWrite(e) /\ e.stateId = stateId}

\* C30: for any single call expression and state S, the deduplicated usage
\* events contain at most one write event (runtimeWrite or initWrite) for S
\* located at that call, even when several extractors recognise the call.
C30_OneWritePerCallAndState ==
  Extracted =>
    \A c \in ProjectCalls :
      \A e \in EventsAt(c) : Cardinality(WriteEventsAt(c, e.stateId)) <= 1

=============================================================================
